---- MODULE Spec2Model ----
(***************************************************************************)
(* rtop: a terminal system monitor.  A background sampler sends system     *)
(* snapshots over an unbounded channel; the renderer loop drains them,     *)
(* interpolates between the last displayed and the newest snapshot, draws, *)
(* and routes key events to actions.                                       *)
(*                                                                         *)
(* The module holds several specifications over one set of variables:      *)
(*   Spec       the application shell (App::run, sampler, channel)         *)
(*   SpecLerp   App::interpolate_snapshots applied to bounded inputs       *)
(*   SpecPanel  the process panel driven by keys and snapshot updates      *)
(*   SpecRing   DataCollector::push_history_point                          *)
(*   SpecNet    the network rate section of DataCollector::collect         *)
(***************************************************************************)
EXTENDS Integers, Sequences, FiniteSets, TLC

\* ------------------------------------------------------------------------
\* Bounds of the model (not program constants)
\* ------------------------------------------------------------------------
MaxSnapshots == 2
MaxQueue == 2
MaxEvents == 2

\* ------------------------------------------------------------------------
\* Option<T>: None is the empty sequence, Some(x) the one-element sequence
\* ------------------------------------------------------------------------
None == <<>>
Some(x) == <<x>>
IsSome(o) == o # <<>>
Unwrap(o) == o[1]

Min2(a, b) == IF a <= b THEN a ELSE b
Max2(a, b) == IF a >= b THEN a ELSE b
Abs(a) == IF a < 0 THEN 0 - a ELSE a

\* ------------------------------------------------------------------------
\* f32 arithmetic.  An f32 value is the integer n standing for n * 2^-27;
\* the values used lie below 4.0, where every f32 of magnitude >= 2^-4 is
\* such an integer.  Results are rounded to 24 significant bits, ties to
\* even, as IEEE-754 single precision does.
\* ------------------------------------------------------------------------
F32_MANTISSA == 2^24

RECURSIVE Quantum(_, _)
\* the spacing of f32 values around magnitude m (in units), at least one unit
Quantum(m, q) == IF m < F32_MANTISSA * q THEN q ELSE Quantum(m, 2 * q)

\* num/den (num >= 0) rounded to the nearest integer, ties to even
RoundHalfEven(num, den) ==
    LET q == num \div den
        r == num % den
    IN  IF 2 * r < den THEN q
        ELSE IF 2 * r > den THEN q + 1
        ELSE IF q % 2 = 0 THEN q ELSE q + 1

\* the f32 nearest to the rational num/den (den > 0)
RoundF32(num, den) ==
    LET m == Abs(num)
        q == Quantum(m \div den, 1)
        r == RoundHalfEven(m, den * q) * q
    IN  IF num < 0 THEN 0 - r ELSE r

\* The interpolation factor is an f32 in [0,1]; the model keeps it as a
\* number of steps of 1/FACTOR_DEN (FACTOR_DEN steps = 1.0).
FACTOR_DEN == 2

\* factor.clamp(0.0, 1.0)
Clamp01(factor) == Max2(0, Min2(FACTOR_DEN, factor))

\* start + (end - start) * factor.clamp(0.0, 1.0), each operation rounded
Lerp(start, end, factor) ==
    LET d == RoundF32(end - start, 1)
        p == RoundF32(d * Clamp01(factor), FACTOR_DEN)
    IN  RoundF32(start + p, 1)

\* (start as f64 + (end - start) as f64 * factor as f64).round() as u64;
\* the byte counts used are far below 2^53, so the f64 operations are exact
\* and round() is round-half-away-from-zero of a non-negative value
LerpU64(start, end, factor) ==
    LET num == start * FACTOR_DEN + (end - start) * factor
    IN  IF num <= 0 THEN 0 ELSE (2 * num + FACTOR_DEN) \div (2 * FACTOR_DEN)

\* ------------------------------------------------------------------------
\* Snapshots
\* ------------------------------------------------------------------------
SortOrders == {"CpuUsage", "Memory", "Pid", "Name"}
CycleSchemes == <<"Default", "Dark", "Nord", "SolarizedDark", "Gruvbox", "Rtop">>
LegacySchemes == {"Light", "Monochrome", "SolarizedLight"}
ColorSchemes == {CycleSchemes[i] : i \in 1..Len(CycleSchemes)} \cup LegacySchemes

\* one GPU entry of a reading
Gpu(usage, temp, memory_used) ==
    [usage |-> usage, temp |-> temp, memory_used |-> memory_used]

\* one process of a reading; name, cmd parts and exe are texts (sequences of
\* characters), cpu_usage is compared only, so any scale serves
Proc(pid, name, cpu, mem, parent, cmd, exe) ==
    [pid |-> pid, name |-> name, cpu_usage |-> cpu, memory |-> mem,
     parent_pid |-> parent, cmd |-> cmd, exe |-> exe]

\* What DataCollector::collect returns for a sensor reading: the measured
\* fields, and the UI-state fields at their defaults.
Collect(reading, seq) ==
    [seq |-> seq,
     global_cpu_usage |-> reading.global_cpu_usage,
     used_memory |-> reading.used_memory,
     used_swap |-> reading.used_swap,
     gpus |-> reading.gpus,
     processes |-> reading.processes,
     disks |-> reading.disks,
     networks |-> reading.networks,
     memory_history |-> reading.memory_history,
     selected_network_interface |-> None,
     process_sort_by |-> "CpuUsage",
     color_scheme |-> "Default",
     auto_update |-> TRUE]

\* the blend of one GPU entry, where both sides have the value
LerpGpu(cur, tgt, factor) ==
    [usage |-> IF IsSome(cur.usage) /\ IsSome(tgt.usage)
               THEN Some(Lerp(Unwrap(cur.usage), Unwrap(tgt.usage), factor))
               ELSE tgt.usage,
     temp |-> IF IsSome(cur.temp) /\ IsSome(tgt.temp)
              THEN Some(Lerp(Unwrap(cur.temp), Unwrap(tgt.temp), factor))
              ELSE tgt.temp,
     memory_used |-> IF IsSome(cur.memory_used) /\ IsSome(tgt.memory_used)
                     THEN Some(LerpU64(Unwrap(cur.memory_used),
                                       Unwrap(tgt.memory_used), factor))
                     ELSE tgt.memory_used]

\* the new interpolated snapshot of App::interpolate_snapshots: a clone of
\* the target with the blended scalars written over it
InterpolateSnapshots(cur, tgt, factor) ==
    LET gpu_count == Min2(Min2(Len(cur.gpus), Len(tgt.gpus)), 8)
    IN  [tgt EXCEPT
          !.global_cpu_usage = Lerp(cur.global_cpu_usage, tgt.global_cpu_usage, factor),
          !.used_memory = LerpU64(cur.used_memory, tgt.used_memory, factor),
          !.used_swap = LerpU64(cur.used_swap, tgt.used_swap, factor),
          !.gpus = [i \in 1..Len(tgt.gpus) |->
                      IF i <= gpu_count
                      THEN LerpGpu(cur.gpus[i], tgt.gpus[i], factor)
                      ELSE tgt.gpus[i]]]

\* ------------------------------------------------------------------------
\* Texts: a String is the sequence of its characters
\* ------------------------------------------------------------------------
Digits == <<"0", "1", "2", "3", "4", "5", "6", "7", "8", "9">>

\* the byte value of a character (the order String::cmp compares by)
CharCode(c) ==
    CASE c = " " -> 32
      [] c = "A" -> 65
      [] c = "B" -> 66
      [] c = "a" -> 97
      [] c = "b" -> 98
      [] c = "/" -> 47
      [] c = "e" -> 101
      [] c = "h" -> 104
      [] c = "m" -> 109
      [] c = "o" -> 111
      [] OTHER -> 48 + (CHOOSE d \in 0..9 : Digits[d + 1] = c)

ToLowerChar(c) ==
    CASE c = "A" -> "a"
      [] c = "B" -> "b"
      [] OTHER -> c

\* str::to_lowercase
ToLowercase(s) == [i \in 1..Len(s) |-> ToLowerChar(s[i])]

RECURSIVE TrimStart(_)
TrimStart(s) == IF s # <<>> /\ Head(s) = " " THEN TrimStart(Tail(s)) ELSE s

RECURSIVE TrimEnd(_)
TrimEnd(s) ==
    IF s # <<>> /\ s[Len(s)] = " " THEN TrimEnd(SubSeq(s, 1, Len(s) - 1)) ELSE s

\* a trim of the leading blanks only
TrimLeading(s) == TrimStart(s)

\* str::trim
Trim(s) == TrimEnd(TrimStart(s))

\* str::contains
Contains(hay, needle) ==
    \E i \in 0..(Len(hay) - Len(needle)) : SubSeq(hay, i + 1, i + Len(needle)) = needle

RECURSIVE PidToString(_)
\* u32::to_string
PidToString(pid) ==
    IF pid < 10 THEN <<Digits[pid + 1]>>
    ELSE Append(PidToString(pid \div 10), Digits[(pid % 10) + 1])

RECURSIVE TextLess(_, _)
\* a.cmp(&b) = Less for two texts
TextLess(a, b) ==
    IF b = <<>> THEN FALSE
    ELSE IF a = <<>> THEN TRUE
    ELSE IF CharCode(Head(a)) # CharCode(Head(b))
         THEN CharCode(Head(a)) < CharCode(Head(b))
    ELSE TextLess(Tail(a), Tail(b))

\* ------------------------------------------------------------------------
\* Process panel (ProcessComponent): rows
\* ------------------------------------------------------------------------
CurrentFilter(c) == IF c.search_mode THEN c.search_input ELSE c.filter_query

NormalizedFilter(c) ==
    LET raw == Trim(CurrentFilter(c))
    IN  IF raw = <<>> THEN None ELSE Some(ToLowercase(raw))

ProcessMatchesFilter(process, filter) ==
    \/ filter = None
    \/ Contains(PidToString(process.pid), Unwrap(filter))
    \/ Contains(ToLowercase(process.name), Unwrap(filter))
    \/ \E i \in 1..Len(process.cmd) :
          Contains(ToLowercase(process.cmd[i]), Unwrap(filter))
    \/ /\ IsSome(process.exe)
       /\ Contains(ToLowercase(Unwrap(process.exe)), Unwrap(filter))

\* a comparator whose CpuUsage order breaks a tie of the cpu usage by the pid
ProcessBeforeNoMemory(a, b, sort_by) ==
    CASE sort_by = "CpuUsage" ->
            \/ a.cpu_usage > b.cpu_usage
            \/ a.cpu_usage = b.cpu_usage /\ a.pid < b.pid
      [] sort_by = "Memory" ->
            \/ a.memory > b.memory
            \/ a.memory = b.memory /\ a.pid < b.pid
      [] sort_by = "Pid" -> a.pid > b.pid
      [] sort_by = "Name" ->
            \/ TextLess(a.name, b.name)
            \/ a.name = b.name /\ a.pid < b.pid

\* the comparator of get_sorted_processes: a sorts strictly before b
ProcessBefore(a, b, sort_by) ==
    CASE sort_by = "CpuUsage" ->
            \/ a.cpu_usage > b.cpu_usage
            \/ /\ a.cpu_usage = b.cpu_usage
               /\ \/ a.memory > b.memory
                  \/ a.memory = b.memory /\ a.pid < b.pid
      [] sort_by = "Memory" ->
            \/ a.memory > b.memory
            \/ a.memory = b.memory /\ a.pid < b.pid
      [] sort_by = "Pid" -> a.pid > b.pid
      [] sort_by = "Name" ->
            \/ TextLess(a.name, b.name)
            \/ a.name = b.name /\ a.pid < b.pid

\* the comparator of build_tree_recursive
TreeBefore(a, b) ==
    \/ a.cpu_usage > b.cpu_usage
    \/ a.cpu_usage = b.cpu_usage /\ a.pid < b.pid

\* the comparator a sort_by call is given: "Tree" is build_tree_recursive's,
\* any other key is the sort order of get_sorted_processes
Before(a, b, key) == IF key = "Tree" THEN TreeBefore(a, b) ELSE ProcessBefore(a, b, key)

RECURSIVE InsertSorted(_, _, _)
\* x put before the first element it sorts strictly before (a stable insert)
InsertSorted(x, sorted, key) ==
    IF sorted = <<>> THEN <<x>>
    ELSE IF Before(x, Head(sorted), key) THEN <<x>> \o sorted
    ELSE <<Head(sorted)>> \o InsertSorted(x, Tail(sorted), key)

RECURSIVE SortBy(_, _)
\* slice::sort_by, a stable sort
SortBy(seq, key) ==
    IF seq = <<>> THEN <<>>
    ELSE InsertSorted(seq[Len(seq)], SortBy(SubSeq(seq, 1, Len(seq) - 1), key), key)

GetSortedProcesses(snap) == SortBy(snap.processes, snap.process_sort_by)

Row(process) == [pid |-> process.pid, name |-> process.name]

RECURSIVE RowsOf(_)
RowsOf(procs) == IF procs = <<>> THEN <<>> ELSE <<Row(Head(procs))>> \o RowsOf(Tail(procs))

GetFlatProcessRows(c) ==
    LET filter == NormalizedFilter(c)
    IN  RowsOf(SelectSeq(GetSortedProcesses(c.snapshot),
                         LAMBDA p : ProcessMatchesFilter(p, filter)))

\* process.parent_pid.unwrap_or(0)
ParentKey(process) == IF IsSome(process.parent_pid) THEN Unwrap(process.parent_pid) ELSE 0

RECURSIVE BuildTreeRecursive(_, _, _)
RECURSIVE BuildTreeChildren(_, _, _)
\* the rows pushed for the ordered children and, after each, its own subtree
BuildTreeChildren(children, procs, filter) ==
    IF children = <<>> THEN <<>>
    ELSE (IF ProcessMatchesFilter(Head(children), filter)
          THEN <<Row(Head(children))>> ELSE <<>>)
         \o BuildTreeRecursive(Head(children).pid, procs, filter)
         \o BuildTreeChildren(Tail(children), procs, filter)

BuildTreeRecursive(parent_pid, procs, filter) ==
    BuildTreeChildren(
        SortBy(SelectSeq(procs, LAMBDA p : ParentKey(p) = parent_pid), "Tree"),
        procs, filter)

GetProcessTreeRows(c) ==
    LET filter == NormalizedFilter(c)
    IN  BuildTreeRecursive(0, c.snapshot.processes, filter)
        \o BuildTreeRecursive(1, c.snapshot.processes, filter)

GetProcessRows(c) == IF c.show_tree THEN GetProcessTreeRows(c) ELSE GetFlatProcessRows(c)

\* Option<ProcessRow>: the row at the selected index, clamped to the last row
SelectedRow(c) ==
    LET rows == GetProcessRows(c)
    IN  IF rows = <<>> THEN None
        ELSE Some(rows[Min2(c.selected_index, Len(rows) - 1) + 1])

ClampSelectedIndex(c) ==
    LET count == Len(GetProcessRows(c))
    IN  IF count = 0 THEN [c EXCEPT !.selected_index = 0]
        ELSE IF c.selected_index >= count THEN [c EXCEPT !.selected_index = count - 1]
        ELSE c

\* ------------------------------------------------------------------------
\* Actions and keys
\* ------------------------------------------------------------------------
Act(t) == [type |-> t, c |-> ""]
UpdateProcessSearch(ch) == [type |-> "UpdateProcessSearch", c |-> ch]

\* a KeyEvent: its code, the character of a Char code, its modifiers
Key(code, ch, mods) == [code |-> code, c |-> ch, mods |-> mods]

IsKillConfirmActive(c) == IsSome(c.kill_dialog)
IsSearchMode(c) == c.search_mode

\* App::handle_key_events: the action a key produces, if any
\* the keys of the kill-confirmation dialog
KillDialogKeys(key) ==
    CASE key.code \in {"Left", "Right", "Tab", "BackTab"} ->
            Some(Act("ToggleProcessKillChoice"))
      [] key.code = "Enter" -> Some(Act("ConfirmProcessKill"))
      [] key.code = "Esc" -> Some(Act("CancelProcessKill"))
      [] OTHER -> None

\* the keys of the process search
SearchKeys(key) ==
    CASE key.code = "Esc" -> Some(Act("CancelProcessSearch"))
      [] key.code = "Enter" -> Some(Act("ConfirmProcessSearch"))
      [] key.code = "Backspace" -> Some(Act("BackspaceProcessSearch"))
      [] key.code = "Char" ->
            IF "CONTROL" \in key.mods \/ "ALT" \in key.mods
            THEN None ELSE Some(UpdateProcessSearch(key.c))
      [] OTHER -> None

\* the keys of the normal mode
NormalKeys(key) ==
    CASE key.code = "Char" /\ key.c = "q" -> Some(Act("Quit"))
      [] key.code = "Esc" -> Some(Act("Quit"))
      [] key.code = "Char" /\ key.c = "c" -> Some(Act("ToggleAutoUpdate"))
      [] key.code = "Char" /\ key.c = "+" -> Some(Act("IncreaseSpeed"))
      [] key.code = "Char" /\ key.c = "-" -> Some(Act("DecreaseSpeed"))
      [] key.code = "Up" -> Some(Act("MoveUp"))
      [] key.code = "Down" -> Some(Act("MoveDown"))
      [] key.code = "Enter" -> Some(Act("Enter"))
      [] key.code = "Char" /\ key.c = "b" -> Some(Act("Back"))
      [] key.code = "Char" /\ key.c = "t" -> Some(Act("SwitchTheme"))
      [] key.code = "Char" /\ key.c \in {"k", "K"} -> Some(Act("RequestProcessKill"))
      [] key.code = "Char" /\ key.c = "S" -> Some(Act("StartProcessSearch"))
      [] key.code = "Char" /\ key.c = "s" ->
            IF "SHIFT" \in key.mods THEN Some(Act("StartProcessSearch"))
            ELSE Some(Act("SwitchProcessSort"))
      [] key.code = "Char" /\ key.c = "n" -> Some(Act("SwitchChartType"))
      [] key.code = "Char" /\ key.c = "T" -> Some(Act("ToggleProcessTree"))
      [] key.code = "Char" /\ key.c = "i" -> Some(Act("CycleNetworkInterface"))
      [] key.code = "Char" /\ key.c = "w" -> Some(Act("SaveConfig"))
      [] OTHER -> None

\* a router that does not look at the search mode
HandleKeyEventsNoSearch(key, c) ==
    IF IsKillConfirmActive(c) THEN KillDialogKeys(key) ELSE NormalKeys(key)

\* App::handle_key_events: the kill dialog first, then the search, then the
\* normal mode
HandleKeyEvents(key, c) ==
    IF IsKillConfirmActive(c) THEN KillDialogKeys(key)
    ELSE IF IsSearchMode(c) THEN SearchKeys(key)
    ELSE NormalKeys(key)

\* ------------------------------------------------------------------------
\* ProcessComponent::update
\* ------------------------------------------------------------------------
KillDialog(pid, name, yes_selected) ==
    [pid |-> pid, name |-> name, yes_selected |-> yes_selected]

\* a kill aimed at the row selected when the dialog is confirmed
KillTargetSelectedRow(c, action) ==
    IF /\ action.type = "ConfirmProcessKill"
       /\ IsSome(c.kill_dialog)
       /\ Unwrap(c.kill_dialog).yes_selected
       /\ IsSome(SelectedRow(c))
    THEN Some(Unwrap(SelectedRow(c)).pid)
    ELSE None

\* the pid `kill -TERM` is run for when the action is handled, if any
KillTarget(c, action) ==
    IF /\ action.type = "ConfirmProcessKill"
       /\ IsSome(c.kill_dialog)
       /\ Unwrap(c.kill_dialog).yes_selected
    THEN Some(Unwrap(c.kill_dialog).pid)
    ELSE None

\* the status message kill_process leaves for the outcome of the command
KillStatus(kill_result) ==
    CASE kill_result = "success" -> "SIGTERM sent"
      [] kill_result = "exit" -> "Failed to terminate"
      [] OTHER -> "Failed to run kill"

\* the match of update, before its closing clamp_selected_index
UpdateMatch(c, action, kill_result) ==
    LET idle == ~IsSome(c.kill_dialog) /\ ~c.search_mode
    IN  CASE action.type = "MoveUp" ->
                IF idle /\ c.selected_index > 0
                THEN [c EXCEPT !.selected_index = @ - 1] ELSE c
          [] action.type = "MoveDown" ->
                IF /\ idle
                   /\ Len(GetProcessRows(c)) > 0
                   /\ c.selected_index < Len(GetProcessRows(c)) - 1
                THEN [c EXCEPT !.selected_index = @ + 1] ELSE c
          [] action.type = "ToggleProcessTree" ->
                IF idle THEN ClampSelectedIndex([c EXCEPT !.show_tree = ~@]) ELSE c
          [] action.type = "StartProcessSearch" ->
                IF ~IsSome(c.kill_dialog)
                THEN ClampSelectedIndex(
                        [c EXCEPT !.search_prev_filter = c.filter_query,
                                  !.search_input = c.filter_query,
                                  !.search_mode = TRUE,
                                  !.status_message = None])
                ELSE c
          [] action.type = "UpdateProcessSearch" ->
                IF c.search_mode
                THEN ClampSelectedIndex(
                        [c EXCEPT !.search_input = Append(@, action.c),
                                  !.selected_index = 0])
                ELSE c
          [] action.type = "BackspaceProcessSearch" ->
                IF c.search_mode
                THEN ClampSelectedIndex(
                        [c EXCEPT !.search_input =
                                      IF @ = <<>> THEN <<>> ELSE SubSeq(@, 1, Len(@) - 1),
                                  !.selected_index = 0])
                ELSE c
          [] action.type = "ConfirmProcessSearch" ->
                IF c.search_mode
                THEN ClampSelectedIndex(
                        [c EXCEPT !.filter_query = Trim(c.search_input),
                                  !.search_mode = FALSE,
                                  !.search_input = <<>>,
                                  !.search_prev_filter = <<>>,
                                  !.selected_index = 0,
                                  !.status_message = None])
                ELSE c
          [] action.type = "CancelProcessSearch" ->
                IF c.search_mode
                THEN ClampSelectedIndex(
                        [c EXCEPT !.filter_query = c.search_prev_filter,
                                  !.search_mode = FALSE,
                                  !.search_input = <<>>,
                                  !.search_prev_filter = <<>>,
                                  !.selected_index = 0,
                                  !.status_message = Some("Search canceled")])
                ELSE c
          [] action.type = "RequestProcessKill" ->
                IF c.search_mode THEN c
                ELSE IF IsSome(SelectedRow(c))
                THEN [c EXCEPT !.kill_dialog =
                                  Some(KillDialog(Unwrap(SelectedRow(c)).pid,
                                                  Unwrap(SelectedRow(c)).name, TRUE)),
                               !.status_message = None]
                ELSE [c EXCEPT !.status_message = Some("No process selected")]
          [] action.type = "ToggleProcessKillChoice" ->
                IF IsSome(c.kill_dialog)
                THEN [c EXCEPT !.kill_dialog =
                        Some([Unwrap(@) EXCEPT !.yes_selected = ~@])]
                ELSE c
          [] action.type = "ConfirmProcessKill" ->
                IF IsSome(c.kill_dialog)
                THEN [c EXCEPT !.kill_dialog = None,
                               !.status_message =
                                  IF Unwrap(c.kill_dialog).yes_selected
                                  THEN Some(KillStatus(kill_result))
                                  ELSE Some("Termination canceled")]
                ELSE c
          [] action.type = "CancelProcessKill" ->
                IF IsSome(c.kill_dialog)
                THEN [c EXCEPT !.kill_dialog = None,
                               !.status_message = Some("Termination canceled")]
                ELSE c
          [] OTHER -> c

\* an update whose RequestProcessKill does not look at search mode
UpdateKillInSearch(c, action, kill_result) ==
    ClampSelectedIndex(
        IF action.type = "RequestProcessKill" /\ IsSome(SelectedRow(c))
        THEN [c EXCEPT !.kill_dialog =
                          Some(KillDialog(Unwrap(SelectedRow(c)).pid,
                                          Unwrap(SelectedRow(c)).name, TRUE)),
                       !.status_message = None]
        ELSE UpdateMatch(c, action, kill_result))

\* ProcessComponent::update: the match, then clamp_selected_index
Update(c, action, kill_result) == ClampSelectedIndex(UpdateMatch(c, action, kill_result))

\* the actions App::handle_action passes on to the process panel
PanelActions ==
    {"MoveUp", "MoveDown", "ToggleProcessTree", "StartProcessSearch",
     "UpdateProcessSearch", "BackspaceProcessSearch", "ConfirmProcessSearch",
     "CancelProcessSearch", "RequestProcessKill", "ToggleProcessKillChoice",
     "ConfirmProcessKill", "CancelProcessKill"}

\* ------------------------------------------------------------------------
\* Theme and UI state
\* ------------------------------------------------------------------------
\* no scheme is mapped to another
CanonicalizeKeepsLegacy(scheme) == scheme

\* Theme::canonicalize_color_scheme
Canonicalize(scheme) ==
    CASE scheme = "Light" -> "Default"
      [] scheme = "Monochrome" -> "Dark"
      [] scheme = "SolarizedLight" -> "SolarizedDark"
      [] OTHER -> scheme

\* Theme::new: a theme is its (canonical) color scheme
ThemeNew(scheme) == Canonicalize(scheme)

\* a successor that stays at the last scheme of the cycle
NextSchemeStopsAtLast(current_theme) ==
    LET cycle == <<"Default", "Dark", "Nord", "SolarizedDark", "Gruvbox", "Rtop">>
        idx == IF \E i \in 1..6 : cycle[i] = current_theme
               THEN (CHOOSE i \in 1..6 : cycle[i] = current_theme) - 1
               ELSE 0
    IN  cycle[IF idx + 1 < 6 THEN idx + 2 ELSE 6]
\* the scheme SwitchTheme moves to from the active theme
NextScheme(current_theme) ==
    LET current == Canonicalize(current_theme)
        idx == IF \E i \in 1..Len(CycleSchemes) : CycleSchemes[i] = current
               THEN (CHOOSE i \in 1..Len(CycleSchemes) : CycleSchemes[i] = current) - 1
               ELSE 0
    IN  CycleSchemes[((idx + 1) % Len(CycleSchemes)) + 1]

\* an order cycle that leaves Pid out
NextSortSkipsPid(sort_by) ==
    CASE sort_by = "CpuUsage" -> "Memory"
      [] sort_by = "Memory" -> "Name"
      [] OTHER -> "CpuUsage"
\* the order SwitchProcessSort moves to
NextSort(sort_by) ==
    CASE sort_by = "CpuUsage" -> "Memory"
      [] sort_by = "Memory" -> "Pid"
      [] sort_by = "Pid" -> "Name"
      [] OTHER -> "CpuUsage"

\* all interface names the readings use, in String order
InterfaceNames == <<"eth0", "lo", "wlan0">>

Net(name, rx, tx) == [name |-> name, received_per_sec |-> rx, transmitted_per_sec |-> tx]

HasInterface(snap, name) == \E i \in 1..Len(snap.networks) : snap.networks[i].name = name

\* the names of the snapshot's networks after names.sort(); names.dedup()
SortedNames(snap) ==
    SelectSeq(InterfaceNames, LAMBDA n : HasInterface(snap, n))

\* a cycle that wraps from the last name to the first, without "all"
NextInterfaceSkipsAll(snap) ==
    LET names == SelectSeq(<<"eth0", "lo", "wlan0">>,
                           LAMBDA n : \E i \in 1..Len(snap.networks) :
                                         snap.networks[i].name = n)
        sel == snap.selected_network_interface
    IN  IF names = <<>> THEN <<>>
        ELSE IF sel = <<>> THEN <<names[1]>>
        ELSE IF \E i \in 1..Len(names) : names[i] = sel[1]
             THEN LET pos == CHOOSE i \in 1..Len(names) : names[i] = sel[1]
                  IN  <<names[(pos % Len(names)) + 1]>>
        ELSE <<names[1]>>
\* the selection CycleNetworkInterface moves to
NextInterface(snap) ==
    LET names == SortedNames(snap)
        sel == snap.selected_network_interface
    IN  IF names = <<>> THEN None
        ELSE IF sel = None THEN Some(names[1])
        ELSE IF \E i \in 1..Len(names) : names[i] = Unwrap(sel)
             THEN LET pos == CHOOSE i \in 1..Len(names) : names[i] = Unwrap(sel)
                  IN  IF pos + 1 <= Len(names) THEN Some(names[pos + 1]) ELSE None
        ELSE Some(names[1])

\* an overlay that leaves the collector's sort order in the received snapshot
ApplyUiStateKeepsSort(new_snapshot, displayed, active_theme) ==
    [new_snapshot EXCEPT
       !.selected_network_interface =
           IF /\ IsSome(displayed.selected_network_interface)
              /\ HasInterface(new_snapshot, Unwrap(displayed.selected_network_interface))
           THEN displayed.selected_network_interface
           ELSE None,
       !.color_scheme = active_theme,
       !.auto_update = displayed.auto_update]

\* an overlay that always resets the selection to "all"
ApplyUiStateDropsSelection(new_snapshot, displayed, active_theme) ==
    [new_snapshot EXCEPT
       !.process_sort_by = displayed.process_sort_by,
       !.selected_network_interface = <<>>,
       !.color_scheme = active_theme,
       !.auto_update = displayed.auto_update]
\* App::apply_ui_state_to_snapshot: the received snapshot with the UI state
\* of the displayed one (and of the active theme) written over it
ApplyUiStateToSnapshot(new_snapshot, displayed, active_theme) ==
    [new_snapshot EXCEPT
       !.process_sort_by = displayed.process_sort_by,
       !.selected_network_interface =
           IF /\ IsSome(displayed.selected_network_interface)
              /\ HasInterface(new_snapshot, Unwrap(displayed.selected_network_interface))
           THEN displayed.selected_network_interface
           ELSE None,
       !.color_scheme = active_theme,
       !.auto_update = displayed.auto_update]

\* the values App::calculate_snapshot_hash feeds the hasher (the 64-bit hash
\* stands for them; collisions are not modelled)
SnapshotHash(snap) ==
    <<snap.global_cpu_usage, snap.used_memory, snap.used_swap, snap.memory_history,
      snap.networks,
      [i \in 1..Len(snap.gpus) |-> <<snap.gpus[i].usage, snap.gpus[i].temp>>],
      Len(snap.processes),
      IF snap.processes = <<>> THEN <<>>
      ELSE <<snap.processes[1].cpu_usage, snap.processes[1].memory>> >>

\* ------------------------------------------------------------------------
\* State
\* ------------------------------------------------------------------------
VARIABLES
    \* App
    pc,                     \* where App::run is: "recv", "frame", "poll", "exited", "failed"
    should_quit,
    theme,
    snapshot,               \* the last displayed snapshot, the start of the blend
    target_snapshot,
    interpolated_snapshot,
    interpolation_factor,   \* in units of 1/FACTOR_DEN
    new_snapshot_received,
    last_snapshot_hash,
    process_component,
    terminal,               \* what Tui::new set up: raw mode, alternate screen, mouse capture
    \* channel and sampler task
    queue,
    rx_open,
    sampler_pc,             \* "running" or "done"
    \* history of the run, for stating properties
    produced,               \* number of snapshots the sampler has sent
    received,               \* seq numbers of the snapshots received, in order
    events_read,            \* number of input events read
    routed,                 \* the latest key routing: the modes before it and its action
    kill_log,               \* pids `kill -TERM` was run for, in order, each with
                            \* the row that was selected when it was run
    \* DataCollector
    history,                \* one history ring
    pushed,                 \* every value pushed onto it, in order
    previous_network_values,
    collected,              \* what the latest collect took in and what it published
    previous_rapl,          \* previous_rapl_energy and previous_rapl_time
    intel_gpu_rapl,         \* intel_gpu_rapl_energy_path (cached or not) and
                            \* previous_intel_gpu_energy, previous_intel_gpu_time
    cpu_history,            \* one history ring per core
    previous_intel_rc6_by_path,
    previous_intel_gpu_usage,
    \* CpuComponent
    gauge,                  \* the usage bar of the latest render_in_area
    listed,                 \* the process list of the latest get_sorted_processes
    \* ProcessComponent
    tree                    \* the call of get_process_tree_rows under way: its
                            \* call stack and the rows pushed so far

appVars == <<pc, should_quit, theme, snapshot, target_snapshot, interpolated_snapshot,
             interpolation_factor, new_snapshot_received, last_snapshot_hash,
             process_component, terminal>>
channelVars == <<queue, rx_open, sampler_pc>>
logVars == <<produced, received, events_read, routed, kill_log>>
raplVars == <<previous_rapl, intel_gpu_rapl>>
sensorVars == <<cpu_history, previous_intel_rc6_by_path, previous_intel_gpu_usage>>
collectorVars == <<history, pushed, previous_network_values, collected, raplVars, sensorVars>>
viewVars == <<gauge, listed, tree>>
vars == <<appVars, channelVars, logVars, collectorVars, viewVars>>

\* ------------------------------------------------------------------------
\* App::new
\* ------------------------------------------------------------------------
\* the scheme App::new starts with, for the scheme of the config file, if any
InitialScheme(config) ==
    ThemeNew(IF IsSome(config) THEN Canonicalize(Unwrap(config)) ELSE "Default")

\* ProcessComponent::new
ProcessComponentNew(snap) ==
    [snapshot |-> snap,
     selected_index |-> 0,
     show_tree |-> FALSE,
     filter_query |-> <<>>,
     search_mode |-> FALSE,
     search_input |-> <<>>,
     search_prev_filter |-> <<>>,
     kill_dialog |-> None,
     status_message |-> None]

\* the collector, the usage bars and the process list are not part of the
\* application specifications
CollectorIdle ==
    /\ history = <<>>
    /\ pushed = <<>>
    /\ previous_network_values = <<>>
    /\ collected = <<>>
    /\ previous_rapl = None
    /\ intel_gpu_rapl = [path |-> FALSE, previous |-> None]
    /\ cpu_history = <<>>
    /\ previous_intel_rc6_by_path = <<>>
    /\ previous_intel_gpu_usage = None
    /\ gauge = <<>>
    /\ listed = <<>>
    /\ tree = [pc |-> "idle"]

\* the state App::run starts in, after App::new took its first snapshot from
\* `reading` and its color scheme from `config`
AppInit(reading, config) ==
    LET first == [Collect(reading, 0) EXCEPT !.color_scheme = InitialScheme(config)]
    IN  /\ pc = "recv"
        /\ should_quit = FALSE
        /\ theme = InitialScheme(config)
        /\ snapshot = first
        /\ target_snapshot = first
        /\ interpolated_snapshot = first
        /\ interpolation_factor = FACTOR_DEN
        /\ new_snapshot_received = FALSE
        /\ last_snapshot_hash = None
        /\ process_component = ProcessComponentNew(first)
        /\ terminal = [raw_mode |-> TRUE, alternate_screen |-> TRUE, mouse_capture |-> TRUE]
        /\ queue = <<>>
        /\ rx_open = TRUE
        /\ sampler_pc = "running"
        /\ produced = 0
        /\ received = <<>>
        /\ events_read = 0
        /\ routed = None
        /\ kill_log = <<>>
        /\ CollectorIdle

\* ------------------------------------------------------------------------
\* Sampler task (DataManager::start_polling), one tick
\* ------------------------------------------------------------------------
SamplerTick(reading) ==
    /\ sampler_pc = "running"
    /\ IF rx_open
       THEN /\ produced < MaxSnapshots
            /\ Len(queue) < MaxQueue
            /\ queue' = Append(queue, Collect(reading, produced + 1))
            /\ produced' = produced + 1
            /\ UNCHANGED sampler_pc
       ELSE \* send fails: the receiver is dropped
            /\ sampler_pc' = "done"
            /\ UNCHANGED <<queue, produced>>
    /\ UNCHANGED <<appVars, rx_open, received, events_read, routed, kill_log, collectorVars,
                   viewVars>>

\* main: block_on returns once run has returned and the runtime is dropped; a
\* sampler task parked at an await is dropped with it
RuntimeDropped ==
    /\ pc \in {"exited", "failed"}
    /\ sampler_pc = "running"
    /\ sampler_pc' = "cancelled"
    /\ UNCHANGED <<appVars, queue, rx_open, logVars, collectorVars, viewVars>>

\* ------------------------------------------------------------------------
\* App::run, one loop iteration in three steps
\* ------------------------------------------------------------------------
\* a drain that takes the newest queued snapshot first
RecvSnapshotNewestFirst ==
    /\ pc = "recv"
    /\ queue # <<>>
    /\ target_snapshot' =
          ApplyUiStateToSnapshot(queue[Len(queue)], interpolated_snapshot, theme)
    /\ snapshot' = interpolated_snapshot
    /\ interpolation_factor' = 0
    /\ new_snapshot_received' = TRUE
    /\ queue' = SubSeq(queue, 1, Len(queue) - 1)
    /\ received' = Append(received, queue[Len(queue)].seq)
    /\ UNCHANGED <<pc, should_quit, theme, interpolated_snapshot, last_snapshot_hash,
                   process_component, terminal, rx_open, sampler_pc, produced,
                   events_read, routed, kill_log, collectorVars, viewVars>>

\* try_recv returns a snapshot
RecvSnapshot ==
    /\ pc = "recv"
    /\ queue # <<>>
    /\ target_snapshot' = ApplyUiStateToSnapshot(Head(queue), interpolated_snapshot, theme)
    /\ snapshot' = interpolated_snapshot
    /\ interpolation_factor' = 0
    /\ new_snapshot_received' = TRUE
    /\ queue' = Tail(queue)
    /\ received' = Append(received, Head(queue).seq)
    /\ UNCHANGED <<pc, should_quit, theme, interpolated_snapshot, last_snapshot_hash,
                   process_component, terminal, rx_open, sampler_pc, produced,
                   events_read, routed, kill_log, collectorVars, viewVars>>

\* try_recv finds the channel empty: the drain loop ends
RecvEmpty ==
    /\ pc = "recv"
    /\ queue = <<>>
    /\ pc' = "frame"
    /\ UNCHANGED <<should_quit, theme, snapshot, target_snapshot, interpolated_snapshot,
                   interpolation_factor, new_snapshot_received, last_snapshot_hash,
                   process_component, terminal, channelVars, logVars, collectorVars, viewVars>>

\* run returns an error: the receiver is dropped, Tui::exit is not called
RunFails ==
    /\ pc' = "failed"
    /\ rx_open' = FALSE
    /\ queue' = <<>>
    /\ UNCHANGED terminal

\* a loop that does not look at the quit flag
RunGoesOn ==
    /\ pc' = "recv"
    /\ UNCHANGED <<terminal, rx_open, queue>>

\* the loop breaks: Tui::exit, then run returns and the receiver is dropped
RunExits ==
    /\ pc' = "exited"
    /\ rx_open' = FALSE
    /\ queue' = <<>>
    /\ terminal' = [raw_mode |-> FALSE, alternate_screen |-> FALSE, mouse_capture |-> FALSE]

\* a factor update without the `.min(1.0)`
AdvanceFactorUncapped(factor, elapsed) ==
    IF factor < FACTOR_DEN THEN factor + elapsed ELSE factor
\* factor after a frame; `elapsed` is the frame time in units of
\* 1 / (4 * FACTOR_DEN) s, so that elapsed * 4.0 is `elapsed` factor units
AdvanceFactor(factor, elapsed) ==
    IF factor < FACTOR_DEN THEN Min2(factor + elapsed, FACTOR_DEN) ELSE factor

\* sync_components: every component gets the interpolated snapshot
SyncComponents(c, interpolated) == [c EXCEPT !.snapshot = interpolated]

\* the factor update, interpolate_snapshots and the draw of a changed frame
Frame(elapsed, draw_ok) ==
    /\ pc = "frame"
    /\ LET factor == AdvanceFactor(interpolation_factor, elapsed)
           interpolated == InterpolateSnapshots(snapshot, target_snapshot, factor)
           drawn == \/ new_snapshot_received
                    \/ last_snapshot_hash = None
                    \/ last_snapshot_hash # Some(SnapshotHash(interpolated))
       IN  /\ interpolation_factor' = factor
           /\ interpolated_snapshot' = interpolated
           /\ snapshot' = IF factor >= FACTOR_DEN THEN target_snapshot ELSE snapshot
           /\ process_component' = SyncComponents(process_component, interpolated)
           /\ IF drawn /\ ~draw_ok
              THEN RunFails /\ UNCHANGED last_snapshot_hash
              ELSE /\ pc' = "poll"
                   /\ last_snapshot_hash' =
                        IF drawn THEN Some(SnapshotHash(interpolated)) ELSE last_snapshot_hash
                   /\ UNCHANGED <<terminal, rx_open, queue>>
    /\ UNCHANGED <<should_quit, theme, target_snapshot, new_snapshot_received,
                   sampler_pc, logVars, collectorVars, viewVars>>

\* ------------------------------------------------------------------------
\* App::handle_action
\* ------------------------------------------------------------------------
\* what handle_action writes into one snapshot copy (it writes the same
\* value into the interpolated, the target and the last displayed snapshot)
HandleActionSnapshot(snap, action) ==
    CASE action.type = "ToggleAutoUpdate" ->
            [snap EXCEPT !.auto_update = ~interpolated_snapshot.auto_update]
      [] action.type = "SwitchProcessSort" ->
            [snap EXCEPT !.process_sort_by = NextSort(interpolated_snapshot.process_sort_by)]
      [] action.type = "CycleNetworkInterface" ->
            [snap EXCEPT !.selected_network_interface = NextInterface(interpolated_snapshot)]
      [] action.type = "SwitchTheme" ->
            [snap EXCEPT !.color_scheme = NextScheme(theme)]
      [] OTHER -> snap

HandleActionTheme(action) ==
    IF action.type = "SwitchTheme" THEN ThemeNew(NextScheme(theme)) ELSE theme

\* handle_action: the match, then sync_components
HandleAction(action, kill_result) ==
    /\ should_quit' = (should_quit \/ action.type = "Quit")
    /\ interpolated_snapshot' = HandleActionSnapshot(interpolated_snapshot, action)
    /\ target_snapshot' = HandleActionSnapshot(target_snapshot, action)
    /\ snapshot' = HandleActionSnapshot(snapshot, action)
    /\ theme' = HandleActionTheme(action)
    /\ process_component' =
          SyncComponents(IF action.type \in PanelActions
                         THEN Update(process_component, action, kill_result)
                         ELSE process_component,
                         interpolated_snapshot')
    /\ kill_log' = IF IsSome(KillTarget(process_component, action))
                   THEN Append(kill_log,
                               [pid |-> Unwrap(KillTarget(process_component, action)),
                                selected |-> SelectedRow(process_component)])
                   ELSE kill_log

NotHandled ==
    UNCHANGED <<should_quit, interpolated_snapshot, target_snapshot, snapshot, theme,
                process_component, kill_log>>

\* ------------------------------------------------------------------------
\* App::run: event poll, event handling, redraw, quit check
\* ------------------------------------------------------------------------
NoKey == Key("None", "", {})
\* an input of the poll step: what poll/read return
Ev(kind, key) == [kind |-> kind, key |-> key]

\* kinds: "none" (poll timed out), "poll_err", "read_err", "key" (press or
\* repeat), "key_release", "mouse", "resize", "resize_err" (Tui::resize
\* fails), "focus" (FocusGained, FocusLost, Paste)
Poll(ev, draw_ok, kill_result) ==
    /\ pc = "poll"
    /\ LET action == IF ev.kind = "key"
                     THEN HandleKeyEvents(ev.key, process_component) ELSE None
           needs_redraw == ev.kind \in {"key", "key_release", "mouse", "resize"}
           fails == \/ ev.kind \in {"poll_err", "read_err", "resize_err"}
                    \/ needs_redraw /\ ~draw_ok
       IN  /\ IF IsSome(action) THEN HandleAction(Unwrap(action), kill_result) ELSE NotHandled
           /\ routed' = IF ev.kind = "key"
                        THEN Some([kill |-> IsKillConfirmActive(process_component),
                                   search |-> IsSearchMode(process_component),
                                   action |-> action])
                        ELSE None
           /\ events_read' = IF ev.kind \in {"none", "poll_err"}
                             THEN events_read ELSE events_read + 1
           /\ last_snapshot_hash' =
                 IF needs_redraw /\ draw_ok
                 THEN Some(SnapshotHash(interpolated_snapshot'))
                 ELSE last_snapshot_hash
           /\ IF fails THEN RunFails /\ UNCHANGED new_snapshot_received
              ELSE IF should_quit' THEN RunExits /\ UNCHANGED new_snapshot_received
              ELSE /\ pc' = "recv"
                   /\ new_snapshot_received' = FALSE
                   /\ UNCHANGED <<terminal, rx_open, queue>>
    /\ UNCHANGED <<interpolation_factor, sampler_pc, produced, received, collectorVars, viewVars>>

\* ------------------------------------------------------------------------
\* Spec: the application shell
\* ------------------------------------------------------------------------
\* sensor readings the sampler may take (0.5 is 2^26 units, 0.1f is 13421773)
BaseReading ==
    [global_cpu_usage |-> 2^26,
     used_memory |-> 1000,
     used_swap |-> 0,
     gpus |-> <<>>,
     processes |-> <<Proc(1, <<"a">>, 10, 5, None, <<>>, None)>>,
     disks |-> <<>>,
     networks |-> <<Net("lo", 0, 0), Net("eth0", 0, 0)>>,
     memory_history |-> <<>>]

ShellReadings ==
    {BaseReading,
     [BaseReading EXCEPT !.global_cpu_usage = 13421773, !.used_memory = 2000,
                         !.networks = <<Net("lo", 0, 0)>>]}

ShellConfigs == {None, Some("Monochrome")}

ShellKeys ==
    {Key("Char", "q", {}), Key("Esc", "", {}), Key("Char", "c", {}), Key("Char", "s", {}),
     Key("Char", "t", {}), Key("Char", "i", {}), Key("Char", "x", {})}

ShellEvents ==
    {Ev(kind, NoKey) : kind \in {"none", "poll_err", "read_err", "key_release", "mouse",
                                 "resize", "resize_err", "focus"}}
    \cup {Ev("key", k) : k \in ShellKeys}

ElapsedSteps == 1..FACTOR_DEN

Init == \E config \in ShellConfigs : AppInit(BaseReading, config)

Next ==
    \/ \E reading \in ShellReadings : SamplerTick(reading)
    \/ RecvSnapshot
    \/ RecvEmpty
    \/ \E elapsed \in ElapsedSteps, draw_ok \in BOOLEAN : Frame(elapsed, draw_ok)
    \/ \E ev \in ShellEvents, draw_ok \in BOOLEAN :
          /\ ev.kind # "none" => events_read < MaxEvents
          /\ Poll(ev, draw_ok, "success")
    \/ RuntimeDropped

Spec == Init /\ [][Next]_vars

\* ------------------------------------------------------------------------
\* C2
\* ------------------------------------------------------------------------
\* when the drain of an iteration that received something has ended
DrainedState ==
    pc = "frame" /\ new_snapshot_received =>
        /\ received # <<>>
        /\ target_snapshot.seq = received[Len(received)]
        /\ snapshot = interpolated_snapshot
        /\ interpolation_factor = 0

\* one try_recv that returns a snapshot
DrainStep ==
    received' # received =>
        /\ queue # <<>>
        /\ received' = Append(received, Head(queue).seq)
        /\ queue' = Tail(queue)
        /\ target_snapshot' = ApplyUiStateToSnapshot(Head(queue), interpolated_snapshot, theme)
        /\ snapshot' = interpolated_snapshot
        /\ interpolated_snapshot' = interpolated_snapshot
        /\ interpolation_factor' = 0

\* C2: snapshots are received in the order the sampler produced them; an
\* iteration leaves its drain only with the channel empty; after a drain that
\* received something the target is the last snapshot drained with the UI
\* state laid over it, the interpolation start is the snapshot that was
\* displayed (the interpolated one) and the factor is 0.
C2_DrainNewestTarget ==
    /\ [](received = [i \in 1..Len(received) |-> i])
    /\ [](rx_open => Len(received) + Len(queue) = produced)
    /\ []DrainedState
    /\ [][DrainStep]_vars
    /\ [][pc = "recv" /\ pc' = "frame" => queue = <<>>]_vars

\* two snapshots drained in one iteration: the second one is the target
C2_Witness ==
    /\ pc = "frame"
    /\ new_snapshot_received
    /\ received = <<1, 2>>
    /\ target_snapshot.seq = 2
    /\ interpolated_snapshot.seq = 0

\* ------------------------------------------------------------------------
\* C3
\* ------------------------------------------------------------------------
UiEdits == {"ToggleAutoUpdate", "SwitchProcessSort", "CycleNetworkInterface", "SwitchTheme"}

\* the three UI values every snapshot copy carries besides the interface
UiAgree(a, b) ==
    /\ a.process_sort_by = b.process_sort_by
    /\ a.color_scheme = b.color_scheme
    /\ a.auto_update = b.auto_update

\* this step handles a key that edits the UI state
UserEdits ==
    /\ events_read' # events_read
    /\ IsSome(routed')
    /\ IsSome(Unwrap(routed').action)
    /\ Unwrap(Unwrap(routed').action).type \in UiEdits

\* the edit of this step is shown at once, in all three copies
EditShown ==
    LET action == Unwrap(Unwrap(routed').action)
        cur == interpolated_snapshot
        new == interpolated_snapshot'
    IN  /\ action.type = "SwitchProcessSort" => new.process_sort_by = NextSort(cur.process_sort_by)
        /\ action.type = "ToggleAutoUpdate" => new.auto_update = ~cur.auto_update
        /\ action.type = "SwitchTheme" => new.color_scheme = NextScheme(theme)
        /\ action.type = "CycleNetworkInterface" =>
              new.selected_network_interface = NextInterface(cur)
        /\ UiAgree(target_snapshot', new)
        /\ UiAgree(snapshot', new)
        /\ target_snapshot'.selected_network_interface = new.selected_network_interface

\* without an edit the displayed UI state stays; the interface is dropped
\* only when the displayed snapshot no longer has it
UiStateKept ==
    LET cur == interpolated_snapshot
        new == interpolated_snapshot'
    IN  /\ UiAgree(new, cur)
        /\ \/ new.selected_network_interface = cur.selected_network_interface
           \/ /\ new.selected_network_interface = None
              /\ ~HasInterface(new, Unwrap(cur.selected_network_interface))

\* every copy carries the displayed UI state; the target carries the
\* displayed interface when it has it
UiStateOverlaid ==
    /\ UiAgree(target_snapshot, interpolated_snapshot)
    /\ UiAgree(snapshot, interpolated_snapshot)
    /\ interpolated_snapshot.color_scheme = theme
    /\ target_snapshot.selected_network_interface =
          IF /\ IsSome(interpolated_snapshot.selected_network_interface)
             /\ HasInterface(target_snapshot,
                             Unwrap(interpolated_snapshot.selected_network_interface))
          THEN interpolated_snapshot.selected_network_interface
          ELSE None

\* C3: a UI-state value the user has set (sort order, color scheme,
\* auto_update, selected interface) is shown at once and is carried by every
\* snapshot displayed afterwards, whatever snapshots the sampler sends: the
\* displayed value changes only by an edit of the user, except that a selected
\* interface is dropped when the displayed snapshot no longer has it.
C3_UiStatePersists ==
    /\ []UiStateOverlaid
    /\ [][IF UserEdits THEN EditShown ELSE UiStateKept]_vars

\* a snapshot received after the user switched the sort order carries it
C3_Witness ==
    /\ pc = "frame"
    /\ new_snapshot_received
    /\ target_snapshot.seq = 2
    /\ target_snapshot.process_sort_by = "Memory"
    /\ interpolated_snapshot.seq = 1

\* ------------------------------------------------------------------------
\* C26
\* ------------------------------------------------------------------------
\* this step takes a snapshot from the channel and overlays the UI state
ReceiveStep == received' # received

\* the selection in force: the one of the latest overlaid snapshot, which the
\* cycle key writes too
Selection == target_snapshot.selected_network_interface

\* a selection the new snapshot no longer contains is cleared to "all"
VanishedCleared ==
    (IsSome(Selection) /\ ~HasInterface(target_snapshot', Unwrap(Selection)))
        => Selection' = None

\* a selection the new snapshot contains is kept
PresentKept ==
    (IsSome(Selection) /\ HasInterface(target_snapshot', Unwrap(Selection)))
        => Selection' = Selection

\* "all" stays "all" on a new snapshot
AllStays == Selection = None => Selection' = None

\* outside a drain the displayed selection is the selection in force
DisplayedFollows ==
    (pc = "poll" \/ (pc = "recv" /\ ~new_snapshot_received))
        => interpolated_snapshot.selected_network_interface = Selection

\* C26: a new snapshot that no longer contains the selected interface clears
\* the selection to "all"; the selection then stays "all" on every later
\* snapshot, also when the interface is back, until the cycle key is pressed
\* (keys are read only after the drain); a selection the new snapshot
\* contains is kept
C26_SelectionCleared ==
    /\ []DisplayedFollows
    /\ [][ReceiveStep => VanishedCleared /\ PresentKept /\ AllStays]_vars

\* the same, with "all" staying "all" only on the first snapshot a loop
\* iteration takes from the channel
C26_ClearedFirstOfDrain ==
    /\ []DisplayedFollows
    /\ [][ReceiveStep => /\ VanishedCleared
                         /\ PresentKept
                         /\ ~new_snapshot_received => AllStays]_vars

\* "eth0" was selected on the first snapshot; a snapshot without it and one
\* with it were then taken in one drain, and "eth0" is selected again
C26_Witness ==
    /\ pc = "recv"
    /\ new_snapshot_received
    /\ interpolated_snapshot.seq = 0
    /\ received = <<1, 2>>
    /\ Selection = Some("eth0")

\* ------------------------------------------------------------------------
\* C9
\* ------------------------------------------------------------------------
\* this step handles a key routed to Quit
QuitHandled ==
    /\ events_read' # events_read
    /\ IsSome(routed')
    /\ Unwrap(routed').action = Some(Act("Quit"))

C10_TerminalRestored ==
    pc \in {"exited", "failed"} =>
        terminal = [raw_mode |-> FALSE, alternate_screen |-> FALSE, mouse_capture |-> FALSE]

\* run has returned an error
C10_Witness ==
    /\ pc = "failed"
    /\ ~should_quit

\* ------------------------------------------------------------------------
\* SpecFrames: the run loop as scheduled code
\* ------------------------------------------------------------------------
\* The loop of App::run is sequential code: once an iteration has begun,
\* its next step (try_recv, the frame, the poll) is taken.  The sampler is
\* a separate task and is given no fairness.  The frame step is enabled
\* exactly when the loop stands at it, and a step that leaves that position
\* is a frame step, so its fairness is stated on the position.
RecvStep == RecvSnapshot \/ RecvEmpty

\* the events of a poll: none within the 16 ms, a resize, the keys s and q
PollStep ==
    \E ev \in {Ev("none", NoKey), Ev("resize", NoKey), Ev("key", Key("Char", "s", {})),
               Ev("key", Key("Char", "q", {}))}, draw_ok \in BOOLEAN :
        /\ ev.kind # "none" => events_read < MaxEvents
        /\ Poll(ev, draw_ok, "success")

NextFrames ==
    \/ \E reading \in ShellReadings : SamplerTick(reading)
    \/ RecvStep
    \/ \E elapsed \in ElapsedSteps, draw_ok \in BOOLEAN : Frame(elapsed, draw_ok)
    \/ PollStep
    \/ RuntimeDropped

SpecFrames ==
    /\ Init
    /\ [][NextFrames]_vars
    /\ WF_vars(RecvStep)
    /\ WF_pc(pc = "frame" /\ pc' \in {"poll", "failed"})
    /\ WF_vars(PollStep)

\* ------------------------------------------------------------------------
\* C11
\* ------------------------------------------------------------------------
RunEnded == pc \in {"failed", "exited"}

FactorInRange == interpolation_factor \in 0..FACTOR_DEN

\* without a new snapshot the factor never decreases
FactorNeverDecreases ==
    [][received' = received => interpolation_factor' >= interpolation_factor]_vars

\* a frame adds 4 * elapsed to a factor below 1 and caps the sum at 1
FactorGrowsPerFrame ==
    [][pc = "frame" /\ pc' # "frame" =>
         IF interpolation_factor < FACTOR_DEN
         THEN \E elapsed \in ElapsedSteps :
                 interpolation_factor' = Min2(interpolation_factor + elapsed, FACTOR_DEN)
         ELSE interpolation_factor' = interpolation_factor]_vars

\* after the k-th snapshot was taken the factor reaches 1, unless another
\* snapshot is taken or the loop ends first
FactorReachesOne ==
    \A k \in 1..MaxSnapshots :
        (Len(received) = k /\ interpolation_factor < FACTOR_DEN)
            ~> \/ interpolation_factor = FACTOR_DEN
               \/ Len(received) > k
               \/ RunEnded

\* at factor 1 the last displayed snapshot is the target
LastDisplayedIsTarget ==
    [](interpolation_factor = FACTOR_DEN => snapshot = target_snapshot)

\* a frame that begins at factor 1 displays the target, and what is
\* displayed stays the target until the next snapshot is taken
LaterFramesShowTarget ==
    /\ [][pc = "frame" /\ pc' # "frame" /\ interpolation_factor = FACTOR_DEN =>
            interpolated_snapshot' = target_snapshot']_vars
    /\ [][/\ interpolation_factor = FACTOR_DEN
          /\ interpolated_snapshot = target_snapshot
          /\ received' = received
          => /\ interpolation_factor' = FACTOR_DEN
             /\ interpolated_snapshot' = target_snapshot']_vars

\* C11: after a snapshot is taken and while no further one is taken, the
\* interpolation factor stays in [0,1], never decreases, grows per frame by
\* four times the frame time capped at 1 and eventually reaches 1; from then
\* on the last displayed snapshot is the target, and every later frame
\* displays the target
C11_FactorConverges ==
    /\ []FactorInRange
    /\ FactorNeverDecreases
    /\ FactorGrowsPerFrame
    /\ FactorReachesOne
    /\ LastDisplayedIsTarget
    /\ LaterFramesShowTarget

\* a snapshot with another cpu value was taken, the factor has reached 1 and
\* a frame after that one has brought the displayed value onto the target
C11_Witness ==
    /\ received # <<>>
    /\ pc = "poll"
    /\ interpolation_factor = FACTOR_DEN
    /\ target_snapshot.global_cpu_usage # BaseReading.global_cpu_usage
    /\ interpolated_snapshot = target_snapshot
    /\ snapshot = target_snapshot

\* ------------------------------------------------------------------------
\* SpecUi: the keys that edit the UI state, with snapshots arriving
\* ------------------------------------------------------------------------
MaxUiKeys == 6

\* the k-th reading: its network list is unsorted with a repeated name, a
\* single name, or empty
UiReading(k) ==
    LET lists == << <<Net("wlan0", 0, 0), Net("eth0", 0, 0), Net("lo", 0, 0),
                      Net("eth0", 0, 0)>>,
                    <<Net("lo", 0, 0)>>,
                    <<>> >>
    IN  [BaseReading EXCEPT !.used_memory = 1000 + k,
                            !.networks = lists[(k % Len(lists)) + 1]]

InitUi == \E config \in {None} \cup {Some(s) : s \in ColorSchemes} : AppInit(UiReading(0), config)

NextUi ==
    \/ SamplerTick(UiReading(produced + 1))
    \/ RecvSnapshot
    \/ RecvEmpty
    \/ Frame(FACTOR_DEN, TRUE)
    \/ \E ev \in {Ev("none", NoKey)}
                  \cup {Ev("key", Key("Char", ch, {})) : ch \in {"i", "s", "t", "c", "q"}} :
          /\ ev.kind # "none" => events_read < MaxUiKeys
          /\ Poll(ev, TRUE, "success")
    \/ RuntimeDropped

SpecUi == InitUi /\ [][NextUi]_vars

\* the poll step that handled the action `type`
Handles(type) ==
    /\ events_read' # events_read
    /\ IsSome(routed')
    /\ Unwrap(routed').action = Some(Act(type))

\* ------------------------------------------------------------------------
\* C12
\* ------------------------------------------------------------------------
RECURSIVE CycleInterface(_, _)
\* the snapshot after n CycleNetworkInterface actions on its selection
CycleInterface(snap, n) ==
    IF n = 0 THEN snap
    ELSE CycleInterface([snap EXCEPT !.selected_network_interface = NextInterface(snap)],
                        n - 1)

\* from "all", step n of the cycle over the k sorted names selects the
\* (n mod (k+1))-th name, and "all" exactly when k+1 divides n
CycleVisitsSorted(snap) ==
    LET names == SortedNames(snap)
        k == Len(names)
        start == [snap EXCEPT !.selected_network_interface = None]
    IN  /\ \A i \in 1..k, j \in 1..k : i # j => names[i] # names[j]
        /\ \A n \in 0..(2 * (k + 1)) :
              CycleInterface(start, n).selected_network_interface =
                 IF n % (k + 1) = 0 THEN None ELSE Some(names[n % (k + 1)])

\* C12: with the interface names of the displayed snapshot unchanged,
\* repeated CycleNetworkInterface from "all" visits the k distinct names in
\* sorted order and is back at "all" exactly every k+1 steps (with k = 0 it
\* stays "all"); the handler makes one such step per action and writes it to
\* the three snapshot copies
C12_InterfaceCycle ==
    /\ [](CycleVisitsSorted(interpolated_snapshot))
    /\ [][Handles("CycleNetworkInterface") =>
            /\ interpolated_snapshot'.selected_network_interface =
                  NextInterface(interpolated_snapshot)
            /\ target_snapshot'.selected_network_interface =
                  interpolated_snapshot'.selected_network_interface
            /\ snapshot'.selected_network_interface =
                  interpolated_snapshot'.selected_network_interface]_vars

\* the cycle key has brought the selection of a three-name list back to "all"
C12_Witness ==
    /\ IsSome(routed)
    /\ Unwrap(routed).action = Some(Act("CycleNetworkInterface"))
    /\ Len(SortedNames(interpolated_snapshot)) = 3
    /\ interpolated_snapshot.selected_network_interface = None
    /\ events_read >= 4
\* ------------------------------------------------------------------------
\* C13
\* ------------------------------------------------------------------------
SortShown == interpolated_snapshot.process_sort_by

\* C13: SwitchProcessSort moves the sort order CpuUsage -> Memory -> Pid ->
\* Name -> CpuUsage in the three snapshot copies, so four of them lead back
\* to the order they started from; no other step (a snapshot taken, a frame,
\* another key) changes the order
C13_SortCycle ==
    /\ [](/\ SortShown \in SortOrders
          /\ NextSort(NextSort(NextSort(NextSort(SortShown)))) = SortShown)
    /\ [][IF Handles("SwitchProcessSort")
          THEN /\ <<SortShown, SortShown'>> \in
                     {<<"CpuUsage", "Memory">>, <<"Memory", "Pid">>, <<"Pid", "Name">>,
                      <<"Name", "CpuUsage">>}
               /\ target_snapshot'.process_sort_by = SortShown'
               /\ snapshot'.process_sort_by = SortShown'
          ELSE SortShown' = SortShown]_vars

\* the fourth sort key, after a snapshot was taken, is back at the order of
\* the start
C13_Witness ==
    /\ IsSome(routed)
    /\ Unwrap(routed).action = Some(Act("SwitchProcessSort"))
    /\ events_read >= 4
    /\ received # <<>>
    /\ SortShown = "CpuUsage"
    /\ target_snapshot.process_sort_by = "CpuUsage"
\* ------------------------------------------------------------------------
\* C14
\* ------------------------------------------------------------------------
RECURSIVE SwitchThemeTimes(_, _)
\* the active scheme after n SwitchTheme actions
SwitchThemeTimes(scheme, n) ==
    IF n = 0 THEN scheme ELSE SwitchThemeTimes(ThemeNew(NextScheme(scheme)), n - 1)

InCycle(scheme) == \E i \in 1..Len(CycleSchemes) : CycleSchemes[i] = scheme

\* C14: the active theme is always one of the six schemes of the cycle
\* (a legacy scheme of the config file is canonicalized at the start), each
\* SwitchTheme moves it to the next scheme of the cycle, and 6 or 12
\* SwitchTheme actions lead back to the scheme they started from
C14_ThemeCycle ==
    /\ [](/\ InCycle(theme)
          /\ \A config \in ColorSchemes : InCycle(InitialScheme(Some(config)))
          /\ \A N \in 1..2 : SwitchThemeTimes(theme, N * Len(CycleSchemes)) = theme
          /\ \A n \in 1..(Len(CycleSchemes) - 1) : SwitchThemeTimes(theme, n) # theme)
    /\ [][Handles("SwitchTheme") =>
            /\ \E i \in 1..Len(CycleSchemes) :
                  /\ theme = CycleSchemes[i]
                  /\ theme' = CycleSchemes[(i % Len(CycleSchemes)) + 1]
            /\ interpolated_snapshot'.color_scheme = theme'
            /\ target_snapshot'.color_scheme = theme'
            /\ snapshot'.color_scheme = theme']_vars

\* the sixth key of a run is a theme key and the theme is Dark, the scheme a
\* Monochrome config file starts with, all other UI state being as at the start
C14_Witness ==
    /\ IsSome(routed)
    /\ Unwrap(routed).action = Some(Act("SwitchTheme"))
    /\ events_read = 6
    /\ theme = InitialScheme(Some("Monochrome"))
    /\ received = <<>>
    /\ interpolated_snapshot.process_sort_by = "CpuUsage"
    /\ interpolated_snapshot.selected_network_interface = None
    /\ interpolated_snapshot.auto_update
\* ------------------------------------------------------------------------
\* C15
\* ------------------------------------------------------------------------
\* the displayed snapshot with the UI state overlaid onto it
OverlaidOnDisplayed ==
    ApplyUiStateToSnapshot(interpolated_snapshot, interpolated_snapshot, theme)

\* C15: overlaying the UI state onto a snapshot equal to the displayed one
\* changes none of process_sort_by, selected_network_interface, color_scheme
\* and auto_update (and nothing else of it)
C15_OverlayNoOp ==
    /\ OverlaidOnDisplayed.process_sort_by = interpolated_snapshot.process_sort_by
    /\ OverlaidOnDisplayed.selected_network_interface =
          interpolated_snapshot.selected_network_interface
    /\ OverlaidOnDisplayed.color_scheme = interpolated_snapshot.color_scheme
    /\ OverlaidOnDisplayed.auto_update = interpolated_snapshot.auto_update
    /\ OverlaidOnDisplayed = interpolated_snapshot

\* every one of the four fields has been edited away from what the
\* collector writes, and a snapshot has been taken since the start
C15_Witness ==
    /\ received # <<>>
    /\ interpolated_snapshot.process_sort_by # "CpuUsage"
    /\ IsSome(interpolated_snapshot.selected_network_interface)
    /\ interpolated_snapshot.color_scheme # "Default"
    /\ ~interpolated_snapshot.auto_update
\* ------------------------------------------------------------------------
\* C30
\* ------------------------------------------------------------------------
CanonicalSchemes == {"Default", "Dark", "Nord", "SolarizedDark", "Gruvbox", "Rtop"}

\* the three copies carry the same sort order, auto_update flag and scheme
CopiesAgree ==
    /\ snapshot.process_sort_by = interpolated_snapshot.process_sort_by
    /\ target_snapshot.process_sort_by = interpolated_snapshot.process_sort_by
    /\ snapshot.auto_update = interpolated_snapshot.auto_update
    /\ target_snapshot.auto_update = interpolated_snapshot.auto_update
    /\ snapshot.color_scheme = interpolated_snapshot.color_scheme
    /\ target_snapshot.color_scheme = interpolated_snapshot.color_scheme

\* C30: in every state of the run loop (so after every handled action and
\* after every frame, and between the snapshots of a drain too) the last
\* displayed, the target and the interpolated snapshot have the same
\* process_sort_by, auto_update and color_scheme, that color_scheme is the
\* active theme's, and the active theme's scheme is one of the six canonical
\* schemes
C30_CopiesInSync ==
    /\ CopiesAgree
    /\ interpolated_snapshot.color_scheme = theme
    /\ theme \in CanonicalSchemes
    /\ Cardinality(CanonicalSchemes) = Len(CycleSchemes)

\* the theme and the sort order were switched, a snapshot was taken and
\* shown, and auto_update was toggled last
C30_Witness ==
    /\ pc = "recv"
    /\ IsSome(routed)
    /\ Unwrap(routed).action = Some(Act("ToggleAutoUpdate"))
    /\ ~target_snapshot.auto_update
    /\ target_snapshot.process_sort_by = "Memory"
    /\ theme = "Nord"
    /\ target_snapshot.seq = 1
    /\ snapshot.seq = 1

\* ------------------------------------------------------------------------
\* SpecPanel: the process panel under keys and snapshots
\* ------------------------------------------------------------------------
MaxKeys == 3

PanelProcesses ==
    <<Proc(1, <<"a">>, 30, 5, None, <<>>, None),
      Proc(2, <<"b">>, 20, 9, Some(1), << <<"A">> >>, None),
      Proc(3, <<"a", "b">>, 10, 7, Some(1), <<>>, Some(<<"B">>))>>

PanelBase == [BaseReading EXCEPT !.processes = PanelProcesses]

\* the process list shrinks to its last process and grows back, in turn
PanelReading(k) ==
    IF k % 2 = 0 THEN [PanelBase EXCEPT !.processes = <<PanelProcesses[3]>>] ELSE PanelBase

PanelKeys ==
    {Key("Up", "", {}), Key("Down", "", {}), Key("Enter", "", {}), Key("Esc", "", {}),
     Key("Backspace", "", {}), Key("Tab", "", {}), Key("Char", "T", {"SHIFT"}),
     Key("Char", "S", {"SHIFT"}), Key("Char", "k", {}), Key("Char", "b", {}),
     Key("Char", " ", {}), Key("Char", "q", {})}

PanelEvents == {Ev("none", NoKey)} \cup {Ev("key", k) : k \in PanelKeys}

KillResults == {"success", "exit", "error"}

InitPanel == AppInit(PanelBase, None)

NextPanel ==
    \/ SamplerTick(PanelReading(produced))
    \/ RecvSnapshot
    \/ RecvEmpty
    \/ Frame(FACTOR_DEN, TRUE)
    \/ \E ev \in PanelEvents, kill_result \in KillResults :
          /\ ev.kind # "none" => events_read < MaxKeys
          /\ Poll(ev, TRUE, kill_result)
    \/ RuntimeDropped

SpecPanel == InitPanel /\ [][NextPanel]_vars

\* ------------------------------------------------------------------------
\* C4
\* ------------------------------------------------------------------------
KeyCodes == {"Left", "Right", "Tab", "BackTab", "Enter", "Esc", "Backspace", "Up", "Down",
             "Delete", "F1"}
KeyChars == {"q", "c", "+", "-", "b", "t", "k", "K", "S", "s", "n", "T", "i", "w", "a", " "}
KeyMods == SUBSET {"SHIFT", "CONTROL", "ALT"}

\* every key the router may be given
AllKeys ==
    {Key(code, "", mods) : code \in KeyCodes, mods \in KeyMods}
    \cup {Key("Char", ch, mods) : ch \in KeyChars, mods \in KeyMods}

KillDialogActions ==
    {Act("ToggleProcessKillChoice"), Act("ConfirmProcessKill"), Act("CancelProcessKill")}

SearchActions ==
    {Act("CancelProcessSearch"), Act("ConfirmProcessSearch"), Act("BackspaceProcessSearch")}
    \cup {UpdateProcessSearch(ch) : ch \in KeyChars}

\* what the router makes of every key in the current state of the panel
KeysRouted ==
    \A key \in AllKeys :
        LET action == HandleKeyEvents(key, process_component)
        IN  /\ IsKillConfirmActive(process_component) =>
                  action = None \/ Unwrap(action) \in KillDialogActions
            /\ ~IsKillConfirmActive(process_component) /\ IsSearchMode(process_component) =>
                  action = None \/ Unwrap(action) \in SearchActions

\* the key handled last was routed by the mode the panel was in
LastKeyRouted ==
    IsSome(routed) =>
        LET r == Unwrap(routed)
        IN  /\ r.kill => r.action = None \/ Unwrap(r.action) \in KillDialogActions
            /\ ~r.kill /\ r.search => r.action = None \/ Unwrap(r.action) \in SearchActions
            /\ r.kill \/ r.search => ~should_quit

\* C4: while the kill dialog is open a key produces only
\* ToggleProcessKillChoice, ConfirmProcessKill or CancelProcessKill; otherwise
\* while the search is active only CancelProcessSearch, ConfirmProcessSearch,
\* BackspaceProcessSearch or UpdateProcessSearch(c); so no key produces Quit
\* or a normal-mode action in either modal state.
C4_ModalPrecedence == KeysRouted /\ LastKeyRouted

\* q was pressed while the search was active and became search input
C4_Witness ==
    /\ IsSome(routed)
    /\ Unwrap(routed).search
    /\ Unwrap(routed).action = Some(UpdateProcessSearch("q"))
    /\ process_component.search_input = <<"q">>

\* ------------------------------------------------------------------------
\* C5
\* ------------------------------------------------------------------------
\* the selected index is a row, or 0 when there is none
SelectionInRange(c) == c.selected_index <= Max2(0, Len(GetProcessRows(c)) - 1)

\* C5: after any change of the row set (an action, a filter edit, a
\* list/tree toggle, or a new snapshot synced into the panel) the selected
\* index is in [0, max(0, rows - 1)].
C5_SelectionClamped == SelectionInRange(process_component)

\* the part of C5 that update keeps: a step that handles a key leaves the
\* index in range if it was in range
C5_UpdateClamps ==
    [][events_read' # events_read /\ SelectionInRange(process_component)
         => SelectionInRange(process_component')]_vars

\* a snapshot with one process was synced while the third row was selected
C5_Witness ==
    /\ process_component.selected_index = 2
    /\ Len(GetProcessRows(process_component)) = 1

\* ------------------------------------------------------------------------
\* C6
\* ------------------------------------------------------------------------
\* this step handles a key routed to the action
Handled(type) ==
    /\ events_read' # events_read
    /\ IsSome(routed')
    /\ IsSome(Unwrap(routed').action)
    /\ Unwrap(Unwrap(routed').action).type = type

\* a termination request is issued only by a confirmed Yes, for the dialog's pid
KillOnlyConfirmed ==
    kill_log' # kill_log =>
        /\ Handled("ConfirmProcessKill")
        /\ IsSome(process_component.kill_dialog)
        /\ Unwrap(process_component.kill_dialog).yes_selected
        /\ Len(kill_log') = Len(kill_log) + 1
        /\ SubSeq(kill_log', 1, Len(kill_log)) = kill_log
        /\ kill_log'[Len(kill_log')].pid = Unwrap(process_component.kill_dialog).pid
        /\ process_component'.kill_dialog = None

\* the dialog is opened only by RequestProcessKill, on the selected row, with Yes
DialogCaptures ==
    process_component.kill_dialog = None /\ process_component'.kill_dialog # None =>
        /\ Handled("RequestProcessKill")
        /\ IsSome(SelectedRow(process_component))
        /\ process_component'.kill_dialog =
              Some(KillDialog(Unwrap(SelectedRow(process_component)).pid,
                              Unwrap(SelectedRow(process_component)).name, TRUE))

\* an open dialog keeps its pid and name, whatever snapshots arrive
DialogKeepsTarget ==
    process_component.kill_dialog # None /\ process_component'.kill_dialog # None =>
        /\ Unwrap(process_component'.kill_dialog).pid = Unwrap(process_component.kill_dialog).pid
        /\ Unwrap(process_component'.kill_dialog).name = Unwrap(process_component.kill_dialog).name

\* Confirm with No selected and Cancel close the dialog without a request
NoRequestOnNo ==
    /\ process_component.kill_dialog # None
    /\ \/ Handled("CancelProcessKill")
       \/ Handled("ConfirmProcessKill") /\ ~Unwrap(process_component.kill_dialog).yes_selected
    => kill_log' = kill_log /\ process_component'.kill_dialog = None

\* C6: kill -TERM is issued only when ConfirmProcessKill is handled with the
\* dialog open and Yes selected, for the pid RequestProcessKill captured from
\* the row selected when it opened the dialog (with Yes selected), whatever
\* snapshots arrived in between; Confirm with No and Cancel issue nothing.
C6_KillTargetsCapturedPid ==
    /\ [][KillOnlyConfirmed]_vars
    /\ [][DialogCaptures]_vars
    /\ [][DialogKeepsTarget]_vars
    /\ [][NoRequestOnNo]_vars

\* a request was issued for pid 1 while the selected row was another process
C6_Witness ==
    /\ kill_log # <<>>
    /\ kill_log[1].pid = 1
    /\ IsSome(kill_log[1].selected)
    /\ Unwrap(kill_log[1].selected).pid = 3

\* ------------------------------------------------------------------------
\* SpecActions: actions delivered to the process panel
\* ------------------------------------------------------------------------
\* ProcessComponent::update is called with any action, in any order (the
\* key routing of the application is not in the way); `routed` keeps the
\* modes before the call and the action, and is empty after a sync
MaxSearchInput == 2

SearchChars == {"b", " "}

DeliveredActions ==
    {Act(type) : type \in PanelActions \ {"UpdateProcessSearch"}}
    \cup {UpdateProcessSearch(ch) : ch \in SearchChars}

\* one call of ProcessComponent::update
Deliver(action, kill_result) ==
    /\ process_component' = Update(process_component, action, kill_result)
    /\ routed' = Some([kill |-> IsKillConfirmActive(process_component),
                       search |-> IsSearchMode(process_component),
                       action |-> Some(action)])
    /\ UNCHANGED <<pc, should_quit, theme, snapshot, target_snapshot, interpolated_snapshot,
                   interpolation_factor, new_snapshot_received, last_snapshot_hash,
                   terminal, channelVars, produced, received, events_read, kill_log,
                   collectorVars, viewVars>>

\* the panel is handed another snapshot (App::sync_components)
SyncPanel(reading) ==
    /\ process_component' = SyncComponents(process_component, Collect(reading, 0))
    /\ process_component' # process_component
    /\ routed' = None
    /\ UNCHANGED <<pc, should_quit, theme, snapshot, target_snapshot, interpolated_snapshot,
                   interpolation_factor, new_snapshot_received, last_snapshot_hash,
                   terminal, channelVars, produced, received, events_read, kill_log,
                   collectorVars, viewVars>>

NextActions ==
    \/ \E action \in DeliveredActions, kill_result \in KillResults :
          /\ action.type = "UpdateProcessSearch" =>
                Len(process_component.search_input) < MaxSearchInput
          /\ Deliver(action, kill_result)
    \/ \E k \in {0, 1} : SyncPanel(PanelReading(k))

SpecActions == InitPanel /\ [][NextActions]_vars

\* ------------------------------------------------------------------------
\* C27
\* ------------------------------------------------------------------------
\* the latest call of update was for `type`, made with search mode active
\* (search) and with the kill dialog open (kill)
LastDelivered(type, search, kill) ==
    /\ IsSome(routed)
    /\ Unwrap(routed).action = Some(Act(type))
    /\ Unwrap(routed).search = search
    /\ Unwrap(routed).kill = kill

\* C27: search mode and the kill-confirmation dialog are never active at the
\* same time, whatever actions the panel is sent in whatever order
C27_SearchXorKillDialog ==
    ~(IsSearchMode(process_component) /\ IsKillConfirmActive(process_component))

\* a kill request sent in search mode, with a row to aim at, opened no dialog
C27_Witness ==
    /\ LastDelivered("RequestProcessKill", TRUE, FALSE)
    /\ IsSearchMode(process_component)
    /\ IsSome(SelectedRow(process_component))
    /\ ~IsKillConfirmActive(process_component)

\* ------------------------------------------------------------------------
\* C29
\* ------------------------------------------------------------------------
\* this step is a call of update for an action of type `type`
StepOf(type) ==
    /\ IsSome(routed')
    /\ Unwrap(Unwrap(routed').action).type = type

\* t is s without its leading and trailing blanks
IsTrimOf(t, s) ==
    /\ t # <<>> => (t[1] # " " /\ t[Len(t)] # " ")
    /\ \E i \in 0..Len(s) :
          /\ i + Len(t) <= Len(s)
          /\ SubSeq(s, i + 1, i + Len(t)) = t
          /\ \A k \in (1..i) \cup ((i + Len(t) + 1)..Len(s)) : s[k] = " "

\* the search has begun: search mode is on, the applied filter is untouched
SearchStarted ==
    /\ process_component'.search_mode
    /\ process_component'.filter_query = process_component.filter_query

\* typing changes neither the applied filter nor the mode
TypingKeepsFilter ==
    /\ process_component'.filter_query = process_component.filter_query
    /\ process_component'.search_mode = process_component.search_mode

\* the search has ended with the selection on the first row
SearchLeft ==
    /\ ~process_component'.search_mode
    /\ process_component'.selected_index = 0

\* C29: from StartProcessSearch (with no kill dialog open) through any
\* UpdateProcessSearch and BackspaceProcessSearch to CancelProcessSearch the
\* applied filter never changes, so Cancel leaves it as it was before Start,
\* and leaves search mode; ConfirmProcessSearch makes the trimmed input the
\* applied filter and leaves search mode; both set selected_index to 0
C29_SearchRoundTrip ==
    /\ [](process_component.search_mode =>
             process_component.search_prev_filter = process_component.filter_query)
    /\ [][/\ (StepOf("StartProcessSearch") /\ ~IsKillConfirmActive(process_component))
                => SearchStarted
          /\ (StepOf("UpdateProcessSearch") \/ StepOf("BackspaceProcessSearch"))
                => TypingKeepsFilter
          /\ (StepOf("CancelProcessSearch") /\ process_component.search_mode)
                => /\ process_component'.filter_query = process_component.filter_query
                   /\ SearchLeft
          /\ (StepOf("ConfirmProcessSearch") /\ process_component.search_mode)
                => /\ IsTrimOf(process_component'.filter_query,
                               process_component.search_input)
                   /\ SearchLeft]_vars

\* a search begun on the applied filter "b" has been cancelled: the filter is
\* "b" again and the first row is selected
C29_Witness ==
    /\ LastDelivered("CancelProcessSearch", TRUE, FALSE)
    /\ process_component.filter_query = <<"b">>
    /\ ~process_component.search_mode
    /\ process_component.selected_index = 0
    /\ process_component.status_message = Some("Search canceled")

\* ------------------------------------------------------------------------
\* DataCollector: history rings and network rates
\* ------------------------------------------------------------------------
HISTORY_LEN == 120

\* a ring that drops its newest elements when it is full
PushHistoryPointDropsNewest(ring, value) ==
    SubSeq(Append(ring, value), 1, Min2(Len(ring) + 1, HISTORY_LEN))

RECURSIVE PopFrontWhileOver(_)
\* while queue.len() > HISTORY_LEN { queue.pop_front(); }
PopFrontWhileOver(ring) ==
    IF Len(ring) > HISTORY_LEN THEN PopFrontWhileOver(Tail(ring)) ELSE ring

\* DataCollector::push_history_point
PushHistoryPoint(ring, value) == PopFrontWhileOver(Append(ring, value))

\* one entry of network_data: an interface and its two running totals
NetData(name, total_received, total_transmitted) ==
    [name |-> name, total_received |-> total_received,
     total_transmitted |-> total_transmitted]

NetworkInfo(data, received_per_sec, transmitted_per_sec) ==
    [name |-> data.name,
     total_received |-> data.total_received,
     total_transmitted |-> data.total_transmitted,
     received_per_sec |-> received_per_sec,
     transmitted_per_sec |-> transmitted_per_sec]

\* current.saturating_sub(prev)
SaturatingSub(a, b) == IF a > b THEN a - b ELSE 0

\* (diff as f64 / elapsed) as u64 for elapsed > 0, else 0; elapsed in ms
RateOf(diff, elapsed) == IF elapsed > 0 THEN (diff * 1000) \div elapsed ELSE 0

\* the NetworkInfo of one interface, from the totals stored for it
NetworkOf(data, prev, elapsed) ==
    IF data.name \in DOMAIN prev
    THEN NetworkInfo(data,
                     RateOf(SaturatingSub(data.total_received, prev[data.name][1]), elapsed),
                     RateOf(SaturatingSub(data.total_transmitted, prev[data.name][2]), elapsed))
    ELSE NetworkInfo(data, 0, 0)

\* a map that keeps the totals of interfaces that are gone
RetainAll(prev, network_data) ==
    [name \in DOMAIN prev \cup {network_data[i].name : i \in 1..Len(network_data)} |->
        IF \E i \in 1..Len(network_data) : network_data[i].name = name
        THEN LET i == CHOOSE i \in 1..Len(network_data) : network_data[i].name = name
             IN  <<network_data[i].total_received, network_data[i].total_transmitted>>
        ELSE prev[name]]

\* previous_network_values after the inserts of the loop and the retain
RetainCurrent(prev, network_data) ==
    [name \in {network_data[i].name : i \in 1..Len(network_data)} |->
        LET i == CHOOSE i \in 1..Len(network_data) : network_data[i].name = name
        IN  <<network_data[i].total_received, network_data[i].total_transmitted>>]

RECURSIVE SumOf(_, _)
SumOf(networks, rx) ==
    IF networks = <<>> THEN 0
    ELSE (IF rx THEN Head(networks).received_per_sec ELSE Head(networks).transmitted_per_sec)
         + SumOf(Tail(networks), rx)

\* one history push of a collect
PushStep(value) ==
    /\ history' = PushHistoryPoint(history, value)
    /\ pushed' = Append(pushed, value)

\* the network section of DataCollector::collect: the rates, the stored
\* totals, and the push of the summed rates onto network_history
CollectNetworks(network_data, elapsed) ==
    LET networks == [i \in 1..Len(network_data) |->
                        NetworkOf(network_data[i], previous_network_values, elapsed)]
    IN  /\ previous_network_values' = RetainCurrent(previous_network_values, network_data)
        /\ collected' = [networks |-> networks, elapsed |-> elapsed]
        /\ PushStep(<<SumOf(networks, TRUE), SumOf(networks, FALSE)>>)
        /\ UNCHANGED <<appVars, channelVars, logVars, viewVars, sensorVars, raplVars>>

\* the push of one sample (used memory, total memory) onto memory_history
CollectMemory(used, total) ==
    /\ PushStep(<<used, total>>)
    /\ UNCHANGED <<appVars, channelVars, logVars, viewVars, sensorVars,
                   previous_network_values, collected, raplVars>>

\* ------------------------------------------------------------------------
\* SpecRing: one history ring under pushes
\* ------------------------------------------------------------------------
MaxPushes == 125

TotalMemory == 4096

InitRing == AppInit(BaseReading, None)

\* the k-th sample differs from every other one
NextRing ==
    /\ Len(pushed) < MaxPushes
    /\ CollectMemory(Len(pushed) + 1, TotalMemory)

SpecRing == InitRing /\ [][NextRing]_vars

\* C7: a history ring never holds more than 120 values, and it holds exactly
\* the last min(n, 120) of the n values pushed, in push order.
C7_HistoryRing ==
    /\ Len(history) <= HISTORY_LEN
    /\ Len(history) = Min2(Len(pushed), HISTORY_LEN)
    /\ history = SubSeq(pushed, Len(pushed) - Len(history) + 1, Len(pushed))

\* more than 120 values were pushed: the oldest ones are gone
C7_Witness ==
    /\ Len(pushed) = HISTORY_LEN + 3
    /\ Len(history) = HISTORY_LEN
    /\ history[1] = <<4, TotalMemory>>
    /\ history[HISTORY_LEN] = <<HISTORY_LEN + 3, TotalMemory>>

\* ------------------------------------------------------------------------
\* SpecNet: the network rates over a few collects
\* ------------------------------------------------------------------------
MaxCollects == 3

\* what sysinfo reports: the interfaces present and their running totals
NetworkViews ==
    {<<>>,
     <<NetData("eth0", 0, 0), NetData("lo", 500, 500)>>,
     <<NetData("lo", 500, 1500), NetData("eth0", 1500, 500)>>,
     <<NetData("lo", 0, 1500)>>,
     <<NetData("eth0", 500, 0)>>}

\* time since the previous collect, in ms
ElapsedMs == {0, 250, 1000, 3000}

InitNet == AppInit(BaseReading, None)

NextNet ==
    /\ Len(pushed) < MaxCollects
    /\ \E network_data \in NetworkViews, elapsed \in ElapsedMs :
          CollectNetworks(network_data, elapsed)

SpecNet == InitNet /\ [][NextNet]_vars

\* the rate is the difference per second of elapsed time, as a u64
IsRate(rate, cur, prev, elapsed) ==
    /\ cur >= prev /\ elapsed > 0 =>
          /\ rate * elapsed <= (cur - prev) * 1000
          /\ (cur - prev) * 1000 < (rate + 1) * elapsed
    /\ cur < prev => rate = 0

\* what one collect does for each interface of its view
RatesDerived ==
    LET prev == previous_network_values
        networks == collected'.networks
        elapsed == collected'.elapsed
    IN  /\ \A i \in 1..Len(networks) :
              LET n == networks[i]
              IN  /\ IF n.name \in DOMAIN prev
                     THEN /\ IsRate(n.received_per_sec, n.total_received,
                                    prev[n.name][1], elapsed)
                          /\ IsRate(n.transmitted_per_sec, n.total_transmitted,
                                    prev[n.name][2], elapsed)
                     ELSE n.received_per_sec = 0 /\ n.transmitted_per_sec = 0
                  /\ n.name \in DOMAIN previous_network_values'
                  /\ previous_network_values'[n.name] =
                        <<n.total_received, n.total_transmitted>>
        /\ DOMAIN previous_network_values' = {networks[i].name : i \in 1..Len(networks)}

\* C8: on each collect, an interface with a stored total gets the rate
\* (current - previous) / elapsed (as a u64) when current >= previous and
\* elapsed > 0, and 0 when current < previous; one without a stored total
\* gets 0; the stored total becomes the current one; afterwards the stored
\* totals have exactly the interfaces of the current view as keys.
C8_NetworkRates == [][pushed' # pushed => RatesDerived]_vars

\* eth0 went from 500 to 1500 bytes received in 3 s: 333 bytes per second,
\* while lo, whose total fell, has rate 0 and the new total stored
C8_Witness ==
    /\ collected # <<>>
    /\ collected.elapsed = 3000
    /\ \E i \in 1..Len(collected.networks) :
          /\ collected.networks[i].name = "eth0"
          /\ collected.networks[i].received_per_sec = 333
    /\ DOMAIN previous_network_values = {"eth0", "lo"}
    /\ previous_network_values["lo"] = <<500, 1500>>

\* ------------------------------------------------------------------------
\* DataCollector::collect_disks
\* ------------------------------------------------------------------------
\* a disk as sysinfo lists it
RawDisk(name, fs, total_space, available_space) ==
    [name |-> name, fs |-> fs, total_space |-> total_space,
     available_space |-> available_space]

DiskInfo(name, total_space, available_space) ==
    [name |-> name, total_space |-> total_space, available_space |-> available_space]

\* an insert that keeps the entry of the first disk of a key as it is
InsertDiskKeepsFirst(by_key, disk) ==
    LET key == <<disk.name, disk.fs, disk.total_space>>
    IN  IF disk.total_space = 0 THEN by_key
        ELSE IF key \in DOMAIN by_key THEN by_key
        ELSE by_key @@ (key :> [name |-> disk.name, total_space |-> disk.total_space,
                                available_space |-> disk.available_space])

\* one turn of the loop over the raw disks: by_key.entry(key).and_modify(min)
\* .or_insert(DiskInfo)
InsertDisk(by_key, disk) ==
    LET key == <<disk.name, disk.fs, disk.total_space>>
    IN  IF disk.total_space = 0 THEN by_key
        ELSE IF key \in DOMAIN by_key
             THEN [by_key EXCEPT ![key].available_space = Min2(@, disk.available_space)]
        ELSE by_key @@ (key :> DiskInfo(disk.name, disk.total_space, disk.available_space))

RECURSIVE InsertDisks(_, _)
\* the map after the loop over the raw disks
InsertDisks(raw, by_key) ==
    IF raw = <<>> THEN by_key
    ELSE InsertDisks(Tail(raw), InsertDisk(by_key, Head(raw)))

\* a comparator that orders the names descending
DiskBeforeNameDescending(a, b) ==
    \/ TextLess(b.name, a.name)
    \/ a.name = b.name /\ a.total_space > b.total_space

\* the comparator of the sort is Less: name ascending, then total_space
\* descending
DiskBefore(a, b) ==
    \/ TextLess(a.name, b.name)
    \/ a.name = b.name /\ a.total_space > b.total_space

\* The lists collect_disks can return for the raw disks: the values of the
\* map in any order (HashMap::into_values of a randomly seeded map), stably
\* sorted, so entries the comparator holds equal come in any order.
CollectDisksOutcomes(raw) ==
    LET by_key == InsertDisks(raw, <<>>)
        keys == DOMAIN by_key
        n == Cardinality(keys)
        orders == {order \in [1..n -> keys] :
                      /\ \A i \in 1..n, j \in 1..n : i # j => order[i] # order[j]
                      /\ \A i \in 1..n, j \in 1..n :
                            i < j => ~DiskBefore(by_key[order[j]], by_key[order[i]])}
    IN  {[i \in 1..n |-> by_key[order[i]]] : order \in orders}

\* the collector lists the disks of a sysinfo view
CollectDisks(raw) ==
    /\ \E disks \in CollectDisksOutcomes(raw) : collected' = [raw |-> raw, disks |-> disks]
    /\ UNCHANGED <<appVars, channelVars, logVars, viewVars, sensorVars,
                   history, pushed, previous_network_values, raplVars>>

\* ------------------------------------------------------------------------
\* SpecDisks: collect_disks on every short list of raw disks
\* ------------------------------------------------------------------------
MaxDisks == 3

Root == <<"/">>

Home == <<"/", "h", "o", "m", "e">>

\* the raw disks of the worked example
ExampleDisks ==
    <<RawDisk(Root, "ext4", 100, 30), RawDisk(Root, "ext4", 100, 20),
      RawDisk(Home, "ext4", 200, 150)>>

\* the lists of at most MaxDisks raw disks over two names, two filesystems,
\* three sizes (0 included) and two amounts of free space, and the example
RawDiskLists ==
    LET universe == {RawDisk(nf[1], nf[2], total, available) :
                        nf \in {<<Root, "ext4">>, <<Root, "vfat">>, <<Home, "ext4">>},
                        total \in {0, 100, 200}, available \in {20, 30}}
    IN  UNION {[1..n -> universe] : n \in 0..MaxDisks} \cup {ExampleDisks}

NextDisks ==
    /\ collected = <<>>
    /\ \E raw \in RawDiskLists : CollectDisks(raw)

SpecDisks == AppInit(BaseReading, None) /\ [][NextDisks]_vars

\* ------------------------------------------------------------------------
\* C16
\* ------------------------------------------------------------------------
DiskKey(disk) == <<disk.name, disk.fs, disk.total_space>>

\* the keys of the raw disks that have a size
KeysOf(raw) == {DiskKey(raw[i]) : i \in {j \in 1..Len(raw) : raw[j].total_space # 0}}

\* the least available_space of the raw disks with the key
MinAvailable(raw, key) ==
    LET group == {raw[i].available_space : i \in {j \in 1..Len(raw) : DiskKey(raw[j]) = key}}
    IN  CHOOSE a \in group : \A b \in group : a <= b

\* the disks are, entry by entry, the keys of the raw disks that have a
\* size, each with the least available space of its raw disks
Deduplicated(raw, disks) ==
    /\ \A i \in 1..Len(disks) : disks[i].total_space # 0
    /\ Len(disks) = Cardinality(KeysOf(raw))
    /\ \E entry \in [KeysOf(raw) -> 1..Len(disks)] :
          /\ \A k1 \in KeysOf(raw), k2 \in KeysOf(raw) : k1 # k2 => entry[k1] # entry[k2]
          /\ \A key \in KeysOf(raw) :
                disks[entry[key]] = DiskInfo(key[1], key[3], MinAvailable(raw, key))

\* C16: for any raw disks, the collected disks drop those of size 0, have
\* one entry per distinct (name, filesystem, total_space) key, and each
\* entry's available_space is the least one of the raw disks with its key
C16_DiskDedup == collected # <<>> => Deduplicated(collected.raw, collected.disks)

\* three raw disks: two of one key with different free space, one of size 0
C16_Witness ==
    /\ collected # <<>>
    /\ Len(collected.raw) = 3
    /\ \E i \in 1..3 : collected.raw[i].total_space = 0
    /\ \E i \in 1..3, j \in 1..3 :
          /\ DiskKey(collected.raw[i]) = DiskKey(collected.raw[j])
          /\ collected.raw[i].available_space < collected.raw[j].available_space
          /\ i > j
    /\ Len(collected.disks) = 1
    /\ collected.disks[1].available_space = 20

\* ------------------------------------------------------------------------
\* C17
\* ------------------------------------------------------------------------
\* the raw disks [("/","ext4",100,30), ("/","ext4",100,20),
\* ("/home","ext4",200,150)] yield, in this order, ("/home",200,150) and
\* then ("/",100,20)
C17_ExampleHomeFirst ==
    collected # <<>> /\ collected.raw = ExampleDisks =>
        collected.disks = <<DiskInfo(Home, 200, 150), DiskInfo(Root, 100, 20)>>

\* C17: the raw disks [("/","ext4",100,30), ("/","ext4",100,20),
\* ("/home","ext4",200,150)] yield the two entries ("/",100,20) and
\* ("/home",200,150) in the order of the sort, name ascending: "/" first
C17_ExampleSorted ==
    collected # <<>> /\ collected.raw = ExampleDisks =>
        collected.disks = <<DiskInfo(Root, 100, 20), DiskInfo(Home, 200, 150)>>

\* the disks of the example have been collected
C17_Witness ==
    /\ collected # <<>>
    /\ collected.raw = ExampleDisks
    /\ Len(collected.disks) = 2

\* ------------------------------------------------------------------------
\* RAPL power.  Energies are in mJ and times in ms, so that the quotient
\* <<energy difference, time difference>> is the power in watts; `as f32` of
\* the f64 quotient is monotonic and 0, 150 and 500 are f32 values, so a
\* quotient is inside a window exactly when the published f32 is.
\* ------------------------------------------------------------------------
RECURSIVE GetCpuPowerUnchecked(_, _, _)
\* the loop with the body of read_rapl_power: no window for the value
GetCpuPowerUnchecked(previous, files, time) ==
    IF files = <<>> THEN [power |-> <<>>, previous |-> previous]
    ELSE LET stored == <<[energy |-> Head(files), time |-> time]>>
         IN  IF previous # <<>> /\ time - previous[1].time > 0
             THEN [power |-> <<<<Head(files) - previous[1].energy,
                                 time - previous[1].time>>>>,
                   previous |-> stored]
             ELSE GetCpuPowerUnchecked(stored, Tail(files), time + 1)

RECURSIVE GetCpuPowerConsumption(_, _, _)
\* get_cpu_power_consumption over the energy_uj files that exist and parse,
\* in the order of rapl_paths, the first read at `time` and each further
\* one a time unit later: the power it returns and the reading it leaves
\* stored
GetCpuPowerConsumption(previous, files, time) ==
    IF files = <<>> THEN [power |-> None, previous |-> previous]
    ELSE LET current_energy == Head(files)
             stored == Some([energy |-> current_energy, time |-> time])
             time_diff == time - Unwrap(previous).time
             energy_diff == current_energy - Unwrap(previous).energy
         IN  IF /\ IsSome(previous)
                /\ time_diff > 0 /\ time_diff <= 10 * 1000
                /\ energy_diff >= 0 /\ energy_diff <= 500 * time_diff
             THEN [power |-> Some(<<energy_diff, time_diff>>), previous |-> stored]
             ELSE GetCpuPowerConsumption(stored, Tail(files), time + 1)

\* a reading that keeps the stored baseline when the counter has decreased.
\* `file` is what the call finds:
\* "undetected" (no cached path and none detected), "missing" (the path does
\* not exist), "noperm", "unreadable", "invalid", or an energy.
GetIntelGpuPowerKeepsBaseline(gpu, file, time) ==
    LET stored == [path |-> TRUE, previous |-> Some([energy |-> file.energy, time |-> time])]
        time_diff == time - Unwrap(gpu.previous).time
        energy_diff == file.energy - Unwrap(gpu.previous).energy
    IN  CASE file.kind = "undetected" ->
                [power |-> None, note |-> Some("No RAPL"), gpu |-> gpu]
          [] file.kind = "missing" ->
                [power |-> None, note |-> Some("No RAPL"),
                 gpu |-> [path |-> FALSE, previous |-> None]]
          [] file.kind = "invalid" ->
                [power |-> None, note |-> Some("Invalid"), gpu |-> [gpu EXCEPT !.path = TRUE]]
          [] file.kind = "noperm" ->
                [power |-> None, note |-> Some("No perm"), gpu |-> [gpu EXCEPT !.path = TRUE]]
          [] file.kind = "unreadable" ->
                [power |-> None, note |-> Some("Unreadable"),
                 gpu |-> [gpu EXCEPT !.path = TRUE]]
          [] OTHER ->
                IF IsSome(gpu.previous) /\ time_diff > 0 /\ time_diff <= 10 * 1000
                THEN IF energy_diff >= 0
                     THEN IF energy_diff <= 150 * time_diff
                          THEN [power |-> Some(<<energy_diff, time_diff>>), note |-> None,
                                gpu |-> stored]
                          ELSE [power |-> None, note |-> Some("Outlier"), gpu |-> stored]
                     ELSE [power |-> None, note |-> Some("Reset"),
                           gpu |-> [gpu EXCEPT !.path = TRUE]]
                ELSE [power |-> None, note |-> Some("Warmup"), gpu |-> stored]

\* get_intel_gpu_power_consumption_with_note.  `file` is what the call finds:
\* "undetected" (no cached path and none detected), "missing" (the path does
\* not exist), "noperm", "unreadable", "invalid", or an energy.
GetIntelGpuPowerConsumptionWithNote(gpu, file, time) ==
    LET stored == [path |-> TRUE, previous |-> Some([energy |-> file.energy, time |-> time])]
        time_diff == time - Unwrap(gpu.previous).time
        energy_diff == file.energy - Unwrap(gpu.previous).energy
    IN  CASE file.kind = "undetected" ->
                [power |-> None, note |-> Some("No RAPL"), gpu |-> gpu]
          [] file.kind = "missing" ->
                [power |-> None, note |-> Some("No RAPL"),
                 gpu |-> [path |-> FALSE, previous |-> None]]
          [] file.kind = "invalid" ->
                [power |-> None, note |-> Some("Invalid"), gpu |-> [gpu EXCEPT !.path = TRUE]]
          [] file.kind = "noperm" ->
                [power |-> None, note |-> Some("No perm"), gpu |-> [gpu EXCEPT !.path = TRUE]]
          [] file.kind = "unreadable" ->
                [power |-> None, note |-> Some("Unreadable"),
                 gpu |-> [gpu EXCEPT !.path = TRUE]]
          [] OTHER ->
                IF IsSome(gpu.previous) /\ time_diff > 0 /\ time_diff <= 10 * 1000
                THEN IF energy_diff >= 0
                     THEN IF energy_diff <= 150 * time_diff
                          THEN [power |-> Some(<<energy_diff, time_diff>>), note |-> None,
                                gpu |-> stored]
                          ELSE [power |-> None, note |-> Some("Outlier"), gpu |-> stored]
                     ELSE [power |-> None, note |-> Some("Reset"), gpu |-> stored]
                ELSE [power |-> None, note |-> Some("Warmup"), gpu |-> stored]

\* the time of the latest read, and the number of collects so far
Clock == IF collected = <<>> THEN 0 ELSE collected.time

Collects == IF collected = <<>> THEN 0 ELSE collected.count

\* a collect publishes cpu_power, `elapsed` after the latest read
CollectCpuPower(elapsed, files) ==
    \E got \in {GetCpuPowerConsumption(previous_rapl, files, Clock + elapsed)} :
        /\ previous_rapl' = got.previous
        /\ collected' = [kind |-> "cpu", count |-> Collects + 1, at |-> Clock + elapsed,
                         time |-> Clock + elapsed + Max2(Len(files) - 1, 0),
                         files |-> files, power |-> got.power, note |-> None]
        /\ UNCHANGED <<appVars, channelVars, logVars, viewVars, sensorVars,
                       history, pushed, previous_network_values, intel_gpu_rapl>>

\* a collect publishes the Intel GPU's power_usage and power_note
CollectIntelGpuPower(elapsed, file) ==
    \E got \in {GetIntelGpuPowerConsumptionWithNote(intel_gpu_rapl, file, Clock + elapsed)} :
        /\ file.kind = "undetected" => ~intel_gpu_rapl.path
        /\ intel_gpu_rapl' = got.gpu
        /\ collected' = [kind |-> "gpu", count |-> Collects + 1, at |-> Clock + elapsed,
                         time |-> Clock + elapsed, file |-> file,
                         power |-> got.power, note |-> got.note]
        /\ UNCHANGED <<appVars, channelVars, logVars, viewVars, sensorVars,
                       history, pushed, previous_network_values, previous_rapl>>

\* ------------------------------------------------------------------------
\* SpecPower: a few reads of the RAPL counters
\* ------------------------------------------------------------------------
MaxRaplFiles == 2

MaxPowerCollects == 3

\* counter values in mJ: over a second, steps of 150 W, 500 W and 650 W
Energies == {0, 150000, 650000}

NextPower ==
    \E elapsed \in {0, 1000, 10000, 10001} :
        /\ Collects < MaxPowerCollects
        /\ \/ \E files \in UNION {[1..n -> Energies] : n \in 0..MaxRaplFiles} :
                 CollectCpuPower(elapsed, files)
           \/ \E file \in {[kind |-> k, energy |-> 0] :
                              k \in {"undetected", "missing", "invalid", "noperm",
                                     "unreadable"}}
                          \cup {[kind |-> "energy", energy |-> e] : e \in Energies} :
                 CollectIntelGpuPower(elapsed, file)

SpecPower == AppInit(BaseReading, None) /\ [][NextPower]_vars

\* ------------------------------------------------------------------------
\* C18
\* ------------------------------------------------------------------------
\* the power <<energy difference, time difference>> is in [0, max] watts
InWindow(power, max) ==
    /\ power[2] > 0
    /\ power[1] >= 0
    /\ power[1] <= max * power[2]

\* a value is derived from a stored reading and a read within 10 s of it
Derives(previous, time) ==
    /\ IsSome(previous)
    /\ time - Unwrap(previous).time > 0
    /\ time - Unwrap(previous).time <= 10000

PublishedInWindow ==
    collected # <<>> /\ IsSome(collected.power) =>
        InWindow(Unwrap(collected.power), IF collected.kind = "cpu" THEN 500 ELSE 150)

\* a GPU value derived outside [0,150] is absent; so is a CPU value outside
\* [0,500] unless a further energy file gave a value inside
OutsideIsAbsent ==
    /\ collected'.kind = "gpu" /\ intel_gpu_rapl' # intel_gpu_rapl
       /\ IsSome(intel_gpu_rapl'.previous)
       /\ Derives(intel_gpu_rapl.previous, collected'.at)
       /\ ~InWindow(<<Unwrap(intel_gpu_rapl'.previous).energy
                        - Unwrap(intel_gpu_rapl.previous).energy,
                      collected'.at - Unwrap(intel_gpu_rapl.previous).time>>, 150)
       => collected'.power = None /\ collected'.note \in {Some("Outlier"), Some("Reset")}
    /\ collected'.kind = "cpu" /\ collected'.time = collected'.at
       /\ IsSome(previous_rapl') /\ Unwrap(previous_rapl').time = collected'.at
       /\ Derives(previous_rapl, collected'.at)
       /\ ~InWindow(<<Unwrap(previous_rapl').energy - Unwrap(previous_rapl).energy,
                      collected'.at - Unwrap(previous_rapl).time>>, 500)
       => collected'.power = None

\* C18: a CPU power value that is published lies in [0,500] W, an Intel GPU
\* power value in [0,150] W, and a value derived outside its window is
\* published as absent
C18_PowerWindows ==
    /\ []PublishedInWindow
    /\ [][collected' # collected => OutsideIsAbsent]_vars

\* the CPU counter was read at 1 s; then the GPU counter
\* gave more than 150 W and the GPU power is absent, noted as an outlier
C18_Witness ==
    /\ collected # <<>>
    /\ collected.kind = "gpu"
    /\ collected.power = None
    /\ collected.note = Some("Outlier")
    /\ IsSome(previous_rapl)
    /\ Unwrap(previous_rapl).energy = 650000
    /\ Unwrap(previous_rapl).time = 1000

\* ------------------------------------------------------------------------
\* C23
\* ------------------------------------------------------------------------
\* the step is a read of the Intel GPU counter
GpuRead == collected' # collected /\ collected'.kind = "gpu"

\* the step read an energy from the counter file
GpuSample == GpuRead /\ collected'.file.kind = "energy"

\* the sample of the step, as a baseline
Sampled == Some([energy |-> collected'.file.energy, time |-> collected'.at])

\* the sample was taken more than 0 and at most 10 s after the stored one
InGap == Derives(intel_gpu_rapl.previous, collected'.at)

Absent(note) == collected'.power = None /\ collected'.note = Some(note)

\* the power of the sample against the stored baseline, in or out of [0,150]
SampleInWindow ==
    InWindow(<<collected'.file.energy - Unwrap(intel_gpu_rapl.previous).energy,
               collected'.at - Unwrap(intel_gpu_rapl.previous).time>>, 150)

FirstIsWarmup ==
    GpuSample /\ intel_gpu_rapl.previous = None
        => Absent("Warmup") /\ intel_gpu_rapl'.previous = Sampled

MissingClears ==
    GpuRead /\ collected'.file.kind \in {"missing", "undetected"}
        => Absent("No RAPL") /\ intel_gpu_rapl'.previous = None

\* a sample not below the stored one is derived from the stored one, is
\* published inside the window and absent as an outlier outside, and is the
\* baseline afterwards either way
DerivedFromBaseline ==
    GpuSample /\ InGap /\ collected'.file.energy >= Unwrap(intel_gpu_rapl.previous).energy
        => /\ intel_gpu_rapl'.previous = Sampled
           /\ IF SampleInWindow
              THEN /\ collected'.note = None
                   /\ collected'.power =
                        Some(<<collected'.file.energy - Unwrap(intel_gpu_rapl.previous).energy,
                               collected'.at - Unwrap(intel_gpu_rapl.previous).time>>)
              ELSE Absent("Outlier")

\* the first readable sample is absent with note "Warmup"; a sample lower
\* than the stored one is absent with note "Reset" and becomes the baseline
\* the next sample is derived from; a sample outside [0,150] W is absent with
\* note "Outlier" and becomes the baseline; a missing path gives "No RAPL"
\* and clears the baseline
C23_PowerStateMachine ==
    [][/\ FirstIsWarmup
       /\ GpuSample /\ IsSome(intel_gpu_rapl.previous)
             /\ collected'.file.energy < Unwrap(intel_gpu_rapl.previous).energy
          => Absent("Reset") /\ intel_gpu_rapl'.previous = Sampled
       /\ DerivedFromBaseline
       /\ MissingClears]_vars

\* C23: as above, for a sample taken more than 0 and at most 10 s after the
\* stored one: a sample lower than the stored one is then absent with note
\* "Reset", one outside [0,150] W absent with note "Outlier"; a sample taken
\* at another distance is absent with note "Warmup"; each of them becomes the
\* baseline
C23_PowerStateMachineInGap ==
    [][/\ FirstIsWarmup
       /\ GpuSample /\ InGap
             /\ collected'.file.energy < Unwrap(intel_gpu_rapl.previous).energy
          => Absent("Reset") /\ intel_gpu_rapl'.previous = Sampled
       /\ DerivedFromBaseline
       /\ GpuSample /\ IsSome(intel_gpu_rapl.previous) /\ ~InGap
          => Absent("Warmup") /\ intel_gpu_rapl'.previous = Sampled
       /\ MissingClears]_vars

\* the counter fell from 650 J to 150 J within a second: the power is absent
\* with note "Reset" and the baseline is the 150 J just read
C23_Witness ==
    /\ collected # <<>>
    /\ collected.kind = "gpu"
    /\ collected.note = Some("Reset")
    /\ collected.count = 2
    /\ collected.time = 1000
    /\ intel_gpu_rapl.previous = Some([energy |-> 150000, time |-> 1000])

\* ------------------------------------------------------------------------
\* C25
\* ------------------------------------------------------------------------
\* the step is a read of the CPU energy files
CpuRead == collected' # collected /\ collected'.kind = "cpu"

\* the reading of the first readable energy file of the step
FirstRead == Some([energy |-> collected'.files[1], time |-> collected'.at])

\* a published value is the quotient between the reading the previous
\* collect stored and this collect's reading of the energy file
FromPreviousCollect ==
    IsSome(collected'.power) =>
        /\ IsSome(previous_rapl)
        /\ previous_rapl' = FirstRead
        /\ Unwrap(collected'.power) = <<Unwrap(FirstRead).energy - Unwrap(previous_rapl).energy,
                                        Unwrap(FirstRead).time - Unwrap(previous_rapl).time>>

\* C25: the CPU power is always the energy difference over the time
\* difference between two readings of the same energy file taken on
\* consecutive collects, never between readings of different files; the first
\* sample returns absent; a decreased counter discards the difference and
\* stores the new baseline
C25_SamePathDelta ==
    [][CpuRead =>
          /\ FromPreviousCollect
          /\ previous_rapl = None => collected'.power = None
          /\ collected'.files # <<>> /\ IsSome(previous_rapl)
                /\ collected'.files[1] < Unwrap(previous_rapl).energy
             => collected'.power = None /\ IsSome(previous_rapl')]_vars

\* with at most one readable energy file all of it holds
C25_OneFileDelta ==
    [][CpuRead /\ Len(collected'.files) <= 1 =>
          /\ FromPreviousCollect
          /\ previous_rapl = None => collected'.power = None
          /\ collected'.files # <<>> /\ IsSome(previous_rapl)
                /\ collected'.files[1] < Unwrap(previous_rapl).energy
             => collected'.power = None /\ previous_rapl' = FirstRead]_vars

\* the first collect of a collector finds two energy files with the same
\* counter value and publishes 0 W: the second file against the first
C25_Witness ==
    /\ collected # <<>>
    /\ collected.kind = "cpu"
    /\ collected.count = 1
    /\ collected.files = <<650000, 650000>>
    /\ collected.power = Some(<<0, 1>>)

\* ------------------------------------------------------------------------
\* The per-core history of DataCollector::collect
\* ------------------------------------------------------------------------
\* the list of rings collect pushes onto: the one it has when that has a
\* ring per core, a new list of cpu_count empty rings otherwise
SizedCpuHistory(cores, cpu_count) ==
    IF Len(cores) # cpu_count THEN [i \in 1..cpu_count |-> <<>>] ELSE cores

\* collect, for the cores: `cpus` is the usage of each core
CollectCpuHistory(cpus) ==
    /\ cpu_history' = [i \in 1..Len(cpus) |->
                          PushHistoryPoint(SizedCpuHistory(cpu_history, Len(cpus))[i], cpus[i])]
    /\ collected' = [kind |-> "cores", count |-> Collects + 1, time |-> Clock, cpus |-> cpus]
    /\ UNCHANGED <<appVars, channelVars, logVars, viewVars, history, pushed,
                   previous_network_values, raplVars, previous_intel_rc6_by_path,
                   previous_intel_gpu_usage>>

\* ------------------------------------------------------------------------
\* SpecCores: a few collects with a core count that changes
\* ------------------------------------------------------------------------
MaxCores == 3

MaxCoreCollects == 3

\* the k-th collect reads usage 10 * k + i or 0 for core i
NextCores ==
    \E cpu_count \in 1..MaxCores :
    \E cpus \in [1..cpu_count -> {0, 1}] :
        /\ Collects < MaxCoreCollects
        /\ CollectCpuHistory([i \in 1..cpu_count |-> cpus[i] * (10 * (Collects + 1) + i)])

SpecCores == AppInit(BaseReading, None) /\ [][NextCores]_vars

\* ------------------------------------------------------------------------
\* C22
\* ------------------------------------------------------------------------
\* a list resized to cpu_count rings: the leading rings kept, empty ones added
ResizeCpuHistory(cores, cpu_count) ==
    [i \in 1..cpu_count |-> IF i <= Len(cores) THEN cores[i] ELSE <<>>]

\* the ring of core i after a collect is the ring it had (an empty one for a
\* core that had none) with the collect's usage pushed onto it
RingsKept ==
    \A i \in 1..Len(cpu_history') :
        cpu_history'[i] = PushHistoryPoint(ResizeCpuHistory(cpu_history, Len(cpu_history'))[i],
                                           collected'.cpus[i])

\* C22: when the core count changes between two collects the per-core history
\* list is resized to the new count keeping the rings it has: on a shrink
\* only trailing rings are dropped, on a grow empty rings are appended, and
\* the history recorded for the surviving cores is unchanged
C22_ResizeKeepsRings ==
    [][collected' # collected /\ collected'.kind = "cores"
          => /\ Len(cpu_history') = Len(collected'.cpus)
             /\ RingsKept]_vars

\* with the same core count every ring is kept, and after any collect there
\* is one ring per core, each ending in the usage just read
C22_SameCountKeeps ==
    [][collected' # collected /\ collected'.kind = "cores"
          => /\ Len(cpu_history') = Len(collected'.cpus)
             /\ Len(cpu_history) = Len(cpu_history') => RingsKept
             /\ \A i \in 1..Len(cpu_history') :
                   cpu_history'[i][Len(cpu_history'[i])] = collected'.cpus[i]]_vars

\* the third collect read three cores after two collects, the second of them
\* of one or two cores: every ring holds the usage just read and no more
C22_Witness ==
    /\ collected # <<>>
    /\ collected.kind = "cores"
    /\ collected.count = 3
    /\ collected.cpus = <<31, 32, 33>>
    /\ cpu_history = << <<31>>, <<32>>, <<33>> >>

\* ------------------------------------------------------------------------
\* DataCollector::get_intel_gpu_usage_with_note.  A usage is a number of
\* 1/UsageDen percent: with whole percentages read, a median has halves, the
\* blend fifths of them, and each smoothing fifths again, so every value of
\* a run of MaxUsageCollects collects is a whole number of units.  The f32
\* rounding of the products by 0.4 and 0.6 is not part of the model.
\* ------------------------------------------------------------------------
MaxUsageCollects == 2

UsageDen == 2 * 5^MaxUsageCollects

\* a whole percentage
Pct(n) == n * UsageDen

\* the GTs of the card: gt0 and gt1, each with one rc6 residency file
IntelGts == {0, 1}

RECURSIVE InsertValue(_, _)
InsertValue(x, sorted) ==
    IF sorted = <<>> THEN <<x>>
    ELSE IF x < Head(sorted) THEN <<x>> \o sorted
    ELSE <<Head(sorted)>> \o InsertValue(x, Tail(sorted))

RECURSIVE SortValues(_)
\* values.sort_by(|a, b| a.total_cmp(b))
SortValues(values) ==
    IF values = <<>> THEN <<>> ELSE InsertValue(Head(values), SortValues(Tail(values)))

\* median_usage (every value of the model is finite)
MedianUsage(values) ==
    IF values = <<>> THEN None
    ELSE LET s == SortValues(values)
             mid == Len(s) \div 2
         IN  IF Len(s) % 2 = 0 THEN Some((s[mid] + s[mid + 1]) \div 2)
             ELSE Some(s[mid + 1])

RECURSIVE ValuesFrom(_, _)
\* by_gt.values(): the values of the GTs from gt on that have one
ValuesFrom(by_gt, gt) ==
    IF gt \notin IntelGts THEN <<>>
    ELSE (IF IsSome(by_gt[gt]) THEN by_gt[gt] ELSE <<>>) \o ValuesFrom(by_gt, gt + 1)

\* read_multi_gt_rc6_busy_by_gt for one path of the paths discovered:
\* `content` is the residency counter read (None for an unreadable file)
Rc6BusyOfPath(previous, path, content, now) ==
    IF path \in DOMAIN previous /\ IsSome(content) /\ now - previous[path][2] > 0
    THEN LET elapsed_ms == now - previous[path][2]
             rc6_delta == Max2(Unwrap(content) - previous[path][1], 0)
         IN  Some((Pct(100) * (elapsed_ms - Min2(rc6_delta, elapsed_ms))) \div elapsed_ms)
    ELSE None

\* read_multi_gt_rc6_busy_by_gt: the busy value of each GT that gave one, and
\* the readings stored for the next call
ReadMultiGtRc6BusyByGt(previous, paths, rc6, now) ==
    [by_gt |-> [gt \in IntelGts |->
                    IF gt \in paths THEN Rc6BusyOfPath(previous, gt, rc6[gt], now) ELSE None],
     previous |-> [path \in DOMAIN previous \cup {p \in paths : IsSome(rc6[p])} |->
                    IF path \in paths /\ IsSome(rc6[path])
                    THEN <<Unwrap(rc6[path]), now>> ELSE previous[path]]]

\* smooth_intel_gpu_usage: the value published
SmoothIntelGpuUsage(previous_usage, usage) ==
    IF IsSome(previous_usage)
    THEN Unwrap(previous_usage) + (3 * (usage - Unwrap(previous_usage))) \div 5
    ELSE usage

\* the rc6 samples kept: a GT is dropped when its busy value is above 80 and
\* its own frequency estimate below 60
Contradictory(rc6_by_gt, freq_by_gt, gt) ==
    /\ IsSome(rc6_by_gt[gt])
    /\ IsSome(freq_by_gt[gt])
    /\ Unwrap(rc6_by_gt[gt]) > Pct(80)
    /\ Unwrap(freq_by_gt[gt]) < Pct(60)

\* the blend applied whatever was filtered
Rc6UsageAlwaysBlended(rc6_by_gt, freq_by_gt) ==
    LET kept == [gt \in IntelGts |->
                    IF Contradictory(rc6_by_gt, freq_by_gt, gt) THEN None ELSE rc6_by_gt[gt]]
        filtered_any == kept # rc6_by_gt
        rc6_samples == IF ValuesFrom(kept, 0) = <<>> THEN ValuesFrom(rc6_by_gt, 0)
                       ELSE ValuesFrom(kept, 0)
        s == SortValues(rc6_samples)
        spread == Len(s) >= 2 /\ s[Len(s)] - s[1] > Pct(60)
        usage == IF spread THEN s[1] ELSE Unwrap(MedianUsage(rc6_samples))
        freq_estimate == MedianUsage(ValuesFrom(freq_by_gt, 0))
    IN  IF IsSome(freq_estimate) /\ Abs(usage - Unwrap(freq_estimate)) > Pct(45)
        THEN [usage |-> Max2(0, Min2(Pct(100), (2 * usage + 3 * Unwrap(freq_estimate)) \div 5)),
              source |-> "Hybrid"]
        ELSE [usage |-> usage,
              source |-> IF spread THEN "RC6d" ELSE IF filtered_any THEN "RC6f" ELSE "RC6"]

\* the rc6 branch of get_intel_gpu_usage_with_note, for a non-empty
\* rc6_by_gt: the usage before smoothing and its note
Rc6Usage(rc6_by_gt, freq_by_gt) ==
    LET kept == [gt \in IntelGts |->
                    IF Contradictory(rc6_by_gt, freq_by_gt, gt) THEN None ELSE rc6_by_gt[gt]]
        filtered_any == kept # rc6_by_gt
        rc6_samples == IF ValuesFrom(kept, 0) = <<>> THEN ValuesFrom(rc6_by_gt, 0)
                       ELSE ValuesFrom(kept, 0)
        s == SortValues(rc6_samples)
        spread == Len(s) >= 2 /\ s[Len(s)] - s[1] > Pct(60)
        usage == IF spread THEN s[1] ELSE Unwrap(MedianUsage(rc6_samples))
        freq_estimate == MedianUsage(ValuesFrom(freq_by_gt, 0))
    IN  IF IsSome(freq_estimate) /\ ~filtered_any
           /\ Abs(usage - Unwrap(freq_estimate)) > Pct(45)
        THEN [usage |-> Max2(0, Min2(Pct(100), (2 * usage + 3 * Unwrap(freq_estimate)) \div 5)),
              source |-> "Hybrid"]
        ELSE [usage |-> usage,
              source |-> IF spread THEN "RC6d" ELSE IF filtered_any THEN "RC6f" ELSE "RC6"]

\* get_intel_gpu_usage_with_note: `busy_percent` is the content of the
\* busy-percent file (None without one), `rc6` the content of each rc6 file,
\* `freq_by_gt` what read_intel_gt_freq_usage_by_gt derived for each GT
GetIntelGpuUsageWithNote(previous, previous_usage, paths, busy_percent, rc6, freq_by_gt, now) ==
    IF IsSome(busy_percent)
    THEN LET usage == Max2(0, Min2(Pct(100), Unwrap(busy_percent)))
             smooth == SmoothIntelGpuUsage(previous_usage, usage)
         IN  [raw |-> Some(usage), rc6_by_gt |-> None, usage |-> Some(smooth),
              note |-> Some("Busy"), previous |-> previous, previous_usage |-> Some(smooth)]
    ELSE LET read == ReadMultiGtRc6BusyByGt(previous, paths, rc6, now)
             freq_estimate == MedianUsage(ValuesFrom(freq_by_gt, 0))
         IN  IF ValuesFrom(read.by_gt, 0) # <<>>
             THEN LET got == Rc6Usage(read.by_gt, freq_by_gt)
                      smooth == SmoothIntelGpuUsage(previous_usage, got.usage)
                  IN  [raw |-> Some(got.usage), rc6_by_gt |-> Some(read.by_gt),
                       usage |-> Some(smooth), note |-> Some(got.source),
                       previous |-> read.previous, previous_usage |-> Some(smooth)]
             ELSE IF paths # {}
             THEN [raw |-> None, rc6_by_gt |-> Some(read.by_gt), usage |-> None,
                   note |-> Some("Warmup"),
                   previous |-> read.previous, previous_usage |-> None]
             ELSE IF IsSome(freq_estimate)
             THEN LET usage == Max2(0, Min2(Pct(100), Unwrap(freq_estimate)))
                      smooth == SmoothIntelGpuUsage(previous_usage, usage)
                  IN  [raw |-> Some(usage), rc6_by_gt |-> Some(read.by_gt),
                       usage |-> Some(smooth), note |-> Some("Freq"),
                       previous |-> read.previous, previous_usage |-> Some(smooth)]
             ELSE [raw |-> None, rc6_by_gt |-> Some(read.by_gt), usage |-> None,
                   note |-> Some("No data"),
                   previous |-> read.previous, previous_usage |-> None]

\* a collect publishes the Intel GPU's usage and usage note, `elapsed` after
\* the latest one
CollectIntelGpuUsage(elapsed, paths, busy_percent, rc6, freq_by_gt) ==
    \E now \in {Clock + elapsed} :
    \E got \in {GetIntelGpuUsageWithNote(previous_intel_rc6_by_path, previous_intel_gpu_usage,
                                         paths, busy_percent, rc6, freq_by_gt, now)} :
        /\ previous_intel_rc6_by_path' = got.previous
        /\ previous_intel_gpu_usage' = got.previous_usage
        /\ collected' = [kind |-> "usage", count |-> Collects + 1, time |-> now,
                         paths |-> paths, prior |-> previous_intel_gpu_usage,
                         rc6_by_gt |-> got.rc6_by_gt, freq_by_gt |-> freq_by_gt,
                         raw |-> got.raw, usage |-> got.usage, note |-> got.note]
        /\ UNCHANGED <<appVars, channelVars, logVars, viewVars, history, pushed,
                       previous_network_values, raplVars, cpu_history>>

\* ------------------------------------------------------------------------
\* SpecUsage: a few collects of the Intel GPU usage
\* ------------------------------------------------------------------------
\* rc6 residency counters in ms: over a second, steps of 100 (busy 90),
\* 500 (busy 50) and 1000 (busy 0), and decreases
Rc6Counters == {0, 100, 500, 1000}

\* the frequency estimates of gt0 and gt1: none, one of them, both
FreqReadings ==
    {[gt \in IntelGts |-> IF gt = 0 THEN f[1] ELSE f[2]] :
        f \in {<<None, None>>, <<None, Some(Pct(40))>>, <<Some(Pct(40)), None>>,
               <<Some(Pct(100)), None>>, <<Some(Pct(40)), Some(Pct(100))>>}}

\* the rc6 files are discovered when the collector is built and stay the
\* same for every collect
NextUsage ==
    \E elapsed \in {0, 1000}, paths \in {{}, IntelGts} :
        /\ Collects < MaxUsageCollects
        /\ collected # <<>> => paths = collected.paths
        /\ \/ \E busy_percent \in {Pct(30), Pct(120)} :
                 CollectIntelGpuUsage(elapsed, paths, Some(busy_percent),
                                      [gt \in IntelGts |-> None], [gt \in IntelGts |-> None])
           \/ \E rc6 \in [IntelGts -> {None} \cup {Some(c) : c \in Rc6Counters}],
                 freq_by_gt \in FreqReadings :
                 /\ \A gt \in IntelGts \ paths : rc6[gt] = None
                 /\ CollectIntelGpuUsage(elapsed, paths, None, rc6, freq_by_gt)

SpecUsage == AppInit(BaseReading, None) /\ [][NextUsage]_vars

\* ------------------------------------------------------------------------
\* C21
\* ------------------------------------------------------------------------
\* the GTs whose rc6 sample the collect dropped as contradicting their own
\* frequency estimate
Dropped(c) ==
    {gt \in IntelGts : /\ IsSome(c.rc6_by_gt[1][gt]) /\ IsSome(c.freq_by_gt[gt])
                       /\ Unwrap(c.rc6_by_gt[1][gt]) > Pct(80)
                       /\ Unwrap(c.freq_by_gt[gt]) < Pct(60)}

\* the busy values of the GTs not in `gts`, in ascending order
BusyWithout(c, gts) ==
    SortValues(ValuesFrom([gt \in IntelGts |->
                              IF gt \in gts THEN None ELSE c.rc6_by_gt[1][gt]], 0))

\* the collect took its usage from rc6 samples
Rc6Path(c) ==
    /\ c # <<>> /\ c.kind = "usage"
    /\ IsSome(c.rc6_by_gt) /\ ValuesFrom(c.rc6_by_gt[1], 0) # <<>>

\* the example: gt0 busy 50, gt1 busy 90 with frequency estimate 40, gt0
\* without a frequency estimate, nothing published before
IsExample(c) ==
    /\ Rc6Path(c) /\ c.prior = None
    /\ c.rc6_by_gt[1] = [gt \in IntelGts |-> IF gt = 0 THEN Some(Pct(50)) ELSE Some(Pct(90))]
    /\ c.freq_by_gt = [gt \in IntelGts |-> IF gt = 0 THEN None ELSE Some(Pct(40))]

ExampleReported ==
    IsExample(collected) => collected.usage = Some(Pct(50)) /\ collected.note = Some("RC6f")

\* in the RC6 usage path a GT whose busy value is above 80 while its own
\* frequency estimate is below 60 is left out of the median and the note
\* becomes "RC6f"; with gt0 busy 50, gt1 busy 90 and frequency 40, and nothing
\* published before, the usage reported is 50 with note "RC6f"
C21_ContradictoryExcluded ==
    /\ (Rc6Path(collected) /\ Dropped(collected) # {}
        => /\ collected.note = Some("RC6f")
           /\ collected.raw = MedianUsage(BusyWithout(collected, Dropped(collected))))
    /\ ExampleReported

\* C21: in the RC6 usage path a GT whose busy value is above 80 while its own
\* frequency estimate is below 60 is left out of the median as long as the
\* sample of another GT remains (when every sample is contradictory all of
\* them are kept), and the note becomes "RC6f" (or "RC6d" when the samples
\* that remain spread by more than 60, the least of them being reported);
\* with gt0 busy 50, gt1 busy 90 and frequency 40, and nothing published
\* before, the usage reported is 50 with note "RC6f"
C21_ContradictoryDropped ==
    /\ (Rc6Path(collected) /\ Dropped(collected) # {}
        => LET left == BusyWithout(collected, Dropped(collected))
               kept == IF left = <<>> THEN BusyWithout(collected, {}) ELSE left
           IN  /\ collected.note \in {Some("RC6f"), Some("RC6d")}
               /\ collected.note = Some("RC6f") =>
                      /\ collected.raw = MedianUsage(kept)
                      /\ kept[Len(kept)] - kept[1] <= Pct(60)
               /\ collected.note = Some("RC6d") =>
                      /\ collected.raw = Some(kept[1])
                      /\ kept[Len(kept)] - kept[1] > Pct(60))
    /\ (Rc6Path(collected) /\ Dropped(collected) = {} => collected.note # Some("RC6f"))
    /\ ExampleReported

\* the example, reached by reading counters 0 and 0, then 500 and 100 a
\* second later
C21_Witness ==
    /\ IsExample(collected)
    /\ collected.usage = Some(Pct(50))
    /\ collected.note = Some("RC6f")
    /\ Dropped(collected) = {1}

\* ------------------------------------------------------------------------
\* C24
\* ------------------------------------------------------------------------
\* the usage derived from the rc6 samples: the median of the samples left
\* after the drop, or the least of them when they spread by more than 60
Rc6Derived(c) ==
    LET left == BusyWithout(c, Dropped(c))
        kept == IF left = <<>> THEN BusyWithout(c, {}) ELSE left
    IN  IF kept[Len(kept)] - kept[1] > Pct(60) THEN kept[1] ELSE Unwrap(MedianUsage(kept))

\* an rc6 usage and a frequency estimate more than 45 points apart
Diverges(c) ==
    /\ Rc6Path(c)
    /\ ValuesFrom(c.freq_by_gt, 0) # <<>>
    /\ Abs(Rc6Derived(c) - Unwrap(MedianUsage(ValuesFrom(c.freq_by_gt, 0)))) > Pct(45)

\* 0.4 * RC6 + 0.6 * freq
Blend(c) ==
    (2 * Rc6Derived(c) + 3 * Unwrap(MedianUsage(ValuesFrom(c.freq_by_gt, 0)))) \div 5

\* C24: whenever an rc6 usage and the frequency estimate are both there and
\* differ by more than 45 points, the value reported (before smoothing) is
\* 0.4 * RC6 + 0.6 * freq with note "Hybrid", also with a single sample and
\* also when a contradictory GT was filtered out
C24_HybridUnconditional ==
    Diverges(collected) =>
        collected.raw = Some(Blend(collected)) /\ collected.note = Some("Hybrid")

\* the blend is applied when nothing was filtered out, with one sample and
\* with two, and "Hybrid" is never the note otherwise
C24_HybridUnlessFiltered ==
    /\ (Diverges(collected) /\ Dropped(collected) = {} =>
           collected.raw = Some(Blend(collected)) /\ collected.note = Some("Hybrid"))
    /\ (collected # <<>> /\ collected.kind = "usage" /\ collected.note = Some("Hybrid")
           => Diverges(collected) /\ Dropped(collected) = {})

\* gt1 (busy 90, frequency 40) is filtered out, gt0 is fully busy and has no
\* frequency estimate: 100 is reported as "RC6f", 60 points above the
\* frequency estimate
C24_Witness ==
    /\ Diverges(collected)
    /\ Dropped(collected) = {1}
    /\ collected.rc6_by_gt[1][0] = Some(Pct(100))
    /\ collected.raw = Some(Pct(100))
    /\ collected.note = Some("RC6f")

\* ------------------------------------------------------------------------
\* The recursion of ProcessComponent::get_process_tree_rows
\* ------------------------------------------------------------------------
\* processes_map.get(&parent_pid), in the order build_tree_recursive visits
TreeChildren(procs, parent_pid) ==
    SortBy(SelectSeq(procs, LAMBDA p : ParentKey(p) = parent_pid), "Tree")

\* a call of build_tree_recursive: its argument and the children its loop
\* has still to visit
CallFrame(procs, parent_pid) ==
    [parent_pid |-> parent_pid, children |-> TreeChildren(procs, parent_pid)]

\* a call chain longer than this has a pid on it twice: the call made for it
\* is the call already under way, so the recursion has no end and the
\* thread's stack runs out
StackLimit(procs) == Len(procs) + 1

\* get_process_tree_rows is called: the map is built, build_tree_recursive(0)
\* is entered and build_tree_recursive(1) is to follow
GetProcessTreeRowsCalled(procs, filter) ==
    /\ tree.pc \in {"idle", "returned"}
    /\ tree' = [pc |-> "building", processes |-> procs, filter |-> filter,
                roots |-> <<1>>, stack |-> <<CallFrame(procs, 0)>>, rows |-> <<>>]
    /\ UNCHANGED <<appVars, channelVars, logVars, collectorVars, gauge, listed>>

\* one step of the innermost call of build_tree_recursive: the row of its
\* next child and the call for that child, or its return
BuildTreeStep ==
    /\ tree.pc = "building"
    /\ LET depth == Len(tree.stack)
           top == tree.stack[depth]
       IN  IF top.children # <<>>
           THEN LET process == Head(top.children)
                    deeper == Append([tree.stack EXCEPT ![depth].children = Tail(@)],
                                     CallFrame(tree.processes, process.pid))
                    rows == IF ProcessMatchesFilter(process, tree.filter)
                            THEN Append(tree.rows, Row(process)) ELSE tree.rows
                IN  IF Len(deeper) > StackLimit(tree.processes)
                    THEN tree' = [tree EXCEPT !.pc = "overflow", !.rows = rows]
                    ELSE tree' = [tree EXCEPT !.stack = deeper, !.rows = rows]
           ELSE IF depth > 1
           THEN tree' = [tree EXCEPT !.stack = SubSeq(@, 1, depth - 1)]
           ELSE IF tree.roots # <<>>
           THEN tree' = [tree EXCEPT
                           !.stack = <<CallFrame(tree.processes, Head(tree.roots))>>,
                           !.roots = Tail(@)]
           ELSE tree' = [tree EXCEPT !.pc = "returned", !.stack = <<>>]
    /\ UNCHANGED <<appVars, channelVars, logVars, collectorVars, gauge, listed>>

\* ------------------------------------------------------------------------
\* SpecTree: the tree rows of every list of up to MaxTreeProcs processes
\* ------------------------------------------------------------------------
MaxTreeProcs == 3

TreePids == 0..(MaxTreeProcs - 1)

TreeProcesses ==
    {Proc(pid, <<"a">>, 10, 5, parent, <<>>, None) :
        pid \in TreePids, parent \in {None} \cup {Some(p) : p \in TreePids}}

\* the lists of processes of different pids, in the order of their pids
TreeLists ==
    {list \in UNION {[1..n -> TreeProcesses] : n \in 0..MaxTreeProcs} :
        \A i \in 1..Len(list), j \in 1..Len(list) : i < j => list[i].pid < list[j].pid}

NextTree ==
    \/ \E procs \in TreeLists, filter \in {None, Some(<<"1">>)} :
          GetProcessTreeRowsCalled(procs, filter)
    \/ BuildTreeStep

SpecTree == AppInit(BaseReading, None) /\ [][NextTree]_vars

\* ------------------------------------------------------------------------
\* C28
\* ------------------------------------------------------------------------
\* C28: building the tree rows comes to an end for every process list, also
\* when a process under a root is its own parent or the parent links form a
\* cycle that is reached from root 0 or 1: no call chain of
\* build_tree_recursive visits a pid twice
C28_TreeBuildEnds == tree.pc # "overflow"

\* the parent links have no cycle: the processes can be ranked with every
\* parent in the list below its children
NoParentCycle(procs) ==
    \E rank \in [1..Len(procs) -> 1..Len(procs)] :
        \A i \in 1..Len(procs), j \in 1..Len(procs) :
            ParentKey(procs[i]) = procs[j].pid => rank[j] < rank[i]

\* without a parent cycle the build comes to an end, with the rows of the
\* two root subtrees
C28_AcyclicBuildEnds ==
    /\ tree.pc = "overflow" => ~NoParentCycle(tree.processes)
    /\ tree.pc = "returned" =>
          tree.rows = BuildTreeRecursive(0, tree.processes, tree.filter)
                      \o BuildTreeRecursive(1, tree.processes, tree.filter)

\* pid 1 is its own parent: the call for parent 1 is made from within itself
C28_Witness ==
    /\ tree.pc = "overflow"
    /\ Len(tree.processes) = 1
    /\ tree.processes[1].pid = 1
    /\ tree.processes[1].parent_pid = Some(1)
    /\ tree.stack[1].parent_pid = 1

\* ------------------------------------------------------------------------
\* The usage bar of CpuComponent::render_in_area (GpuComponent draws its
\* bar with the same code).  The usage is an f32 given in eighths of a
\* percent; an f32 result is kept as mantissa m (below 2^24, or 2^24 after a
\* round up) and exponent e, standing for m * 2^-e.
\* ------------------------------------------------------------------------
RECURSIVE MantissaShift(_, _)
\* the least t with eighths * 2^t / 25 >= 2^23
MantissaShift(eighths, t) ==
    IF eighths * 2^t >= 25 * 2^23 THEN t ELSE MantissaShift(eighths, t + 1)

\* usage_percentage / 100.0: eighths / 800 = (eighths * 2^t / 25) * 2^-(t+5)
DivBy100(eighths) ==
    IF eighths = 0 THEN [m |-> 0, e |-> 0]
    ELSE LET t == MantissaShift(eighths, 0)
         IN  [m |-> RoundHalfEven(eighths * 2^t, 25), e |-> t + 5]

RECURSIVE MantissaQuantum(_, _)
\* the least power of two q with m / q < 2^24
MantissaQuantum(m, q) ==
    IF m \div q < F32_MANTISSA THEN q ELSE MantissaQuantum(m, 2 * q)

\* ratio * total_units as f32 (total_units is an integer below 2^7)
MulF32(ratio, total_units) ==
    LET product == ratio.m * total_units
        q == MantissaQuantum(product, 1)
    IN  [m |-> RoundHalfEven(product, q) * q, e |-> ratio.e]

\* a conversion that drops the fraction
TruncateAsUsize(value) ==
    IF value.e > 30 THEN 0 ELSE value.m \div 2^value.e

\* value.round() as usize: to the nearest integer, halves away from zero
RoundAsUsize(value) ==
    IF value.e > 31 THEN 0
    ELSE IF value.e = 0 THEN value.m
    ELSE ((value.m \div 2^(value.e - 1)) + 1) \div 2

\* filled_units for usage_percentage = cpu_usage.min(100.0)
FilledUnits(eighths, bar_width) ==
    RoundAsUsize(MulF32(DivBy100(Min2(eighths, 800)), bar_width * 8))

\* fractional_block: the glyph of a cell filled to `units` eighths
FractionalBlock(units) ==
    IF units \in 1..7 THEN <<units, 8>> ELSE "shade"

\* the cells of the bar, left to right: a cell is a space on the active
\* color, a space on the track color, or a fractional block on the track
BarCells(filled_units, bar_width) ==
    [i \in 1..bar_width |->
        LET start_unit == (i - 1) * 8
            end_unit == start_unit + 8
        IN  IF filled_units <= start_unit THEN [char |-> " ", bg |-> "track"]
            ELSE IF filled_units >= end_unit THEN [char |-> " ", bg |-> "active"]
            ELSE [char |-> FractionalBlock(filled_units - start_unit), bg |-> "track"]]

\* render_in_area draws the bar of a usage into bar_width cells
RenderGauge(eighths, bar_width) ==
    /\ gauge' = [eighths |-> eighths, bar_width |-> bar_width,
                 cells |-> BarCells(FilledUnits(eighths, bar_width), bar_width)]
    /\ UNCHANGED <<appVars, channelVars, logVars, collectorVars, listed, tree>>

\* ------------------------------------------------------------------------
\* SpecBars: the bar of every usage in eighths of a percent, in every width
\* ------------------------------------------------------------------------
MaxBarWidth == 10

\* the first draw is of any usage up to 101 % in any width; a later one is
\* of a usage one eighth of a percent higher, in the same width
NextBars ==
    IF gauge = <<>>
    THEN \E eighths \in 0..(8 * 101), bar_width \in 1..MaxBarWidth :
            RenderGauge(eighths, bar_width)
    ELSE gauge.eighths < 8 * 101 /\ RenderGauge(gauge.eighths + 1, gauge.bar_width)

SpecBars == AppInit(BaseReading, None) /\ [][NextBars]_vars

\* ------------------------------------------------------------------------
\* C19
\* ------------------------------------------------------------------------
\* the number of cells drawn as fully filled
FullCells(g) == Cardinality({i \in 1..g.bar_width : g.cells[i] = [char |-> " ", bg |-> "active"]})

\* the eighths the fractional block of the bar shows (0 without one)
PartialUnits(g) ==
    IF \E i \in 1..g.bar_width : g.cells[i].char # " "
    THEN LET i == CHOOSE j \in 1..g.bar_width : g.cells[j].char # " "
         IN  IF g.cells[i].char = "shade" THEN 0 ELSE g.cells[i].char[1]
    ELSE 0

\* full cells first, then at most one fractional block, then track
WellFormedBar(g) ==
    \A i \in 1..g.bar_width, j \in 1..g.bar_width :
        i < j => /\ g.cells[j].bg = "active" => g.cells[i].bg = "active"
                 /\ g.cells[i].char # " " => g.cells[j] = [char |-> " ", bg |-> "track"]
                 /\ g.cells[i].char # "shade"

\* what is drawn does not shrink when the usage rises
FillMonotonic ==
    [][gauge # <<>> /\ gauge' # <<>> /\ gauge'.bar_width = gauge.bar_width
         /\ gauge'.eighths >= gauge.eighths
         => <<FullCells(gauge), PartialUnits(gauge)>> = <<FullCells(gauge'), PartialUnits(gauge')>>
            \/ FullCells(gauge) < FullCells(gauge')
            \/ /\ FullCells(gauge) = FullCells(gauge')
               /\ PartialUnits(gauge) < PartialUnits(gauge')]_vars

\* for a width w >= 1 and a percent p in [0,100] (p = eighths / 8), the
\* number of fully filled cells is floor(p/100 * 8w / 8), and the fill is
\* monotonic in p
C19_FullCellsFloor ==
    /\ [](gauge # <<>> /\ gauge.eighths <= 800 =>
            FullCells(gauge) = (gauge.eighths * gauge.bar_width) \div 800)
    /\ FillMonotonic

\* C19: for a width w >= 1 and a percent p in [0,100], the number of fully
\* filled cells is floor(filled / 8) and the fractional block shows
\* filled mod 8 eighths, where filled = round(p/100 * 8w), halves rounded up
\* (so the cell below a boundary is full from half a sub-unit below it); the
\* fill is monotonic in p
C19_FullCellsOfRounded ==
    /\ [](gauge # <<>> /\ gauge.eighths <= 800 =>
            LET filled == (2 * gauge.eighths * gauge.bar_width + 100) \div 200
            IN  /\ WellFormedBar(gauge)
                /\ FullCells(gauge) = filled \div 8
                /\ PartialUnits(gauge) = filled % 8)
    /\ FillMonotonic

\* 95 % in one cell: 7.6 sub-units round to 8, the cell is drawn full
C19_Witness ==
    /\ gauge # <<>>
    /\ gauge.eighths = 8 * 95
    /\ gauge.bar_width = 1
    /\ FullCells(gauge) = 1

\* ------------------------------------------------------------------------
\* The flat process list: get_sorted_processes applied to a snapshot
\* ------------------------------------------------------------------------
\* get_sorted_processes sorts the processes of the component's snapshot in
\* its sort order
ListProcesses(processes, sort_by) ==
    /\ listed' = [processes |-> processes, sort_by |-> sort_by,
                  sorted |-> GetSortedProcesses([processes |-> processes,
                                                 process_sort_by |-> sort_by])]
    /\ UNCHANGED <<appVars, channelVars, logVars, collectorVars, gauge, tree>>

\* ------------------------------------------------------------------------
\* SpecSort: every list of up to MaxProcs processes in every sort order
\* ------------------------------------------------------------------------
MaxProcs == 3

\* cpu usage (percent), memory (MiB) and name of a process: equal and
\* different in each field, one name a prefix of another
ProcShapes ==
    {<<10, 5, <<"b">> >>, <<10, 8, <<"a">> >>, <<20, 1, <<"a", "b">> >>, <<20, 8, <<"b">> >>}

\* the process table holds one entry per pid
ProcPids == 2..(MaxProcs + 1)

ProcessLists ==
    UNION {{ps \in [1..n -> {Proc(pid, shape[3], shape[1], shape[2], None, <<>>, None) :
                                pid \in ProcPids, shape \in ProcShapes}] :
               \A i \in 1..n, j \in 1..n : i # j => ps[i].pid # ps[j].pid} : n \in 0..MaxProcs}

\* a snapshot starts in the CpuUsage order; the sort key moves the same
\* processes to the next order
NextSorted ==
    IF listed = <<>>
    THEN \E processes \in ProcessLists : ListProcesses(processes, "CpuUsage")
    ELSE ListProcesses(listed.processes, NextSort(listed.sort_by))

SpecSort == AppInit(BaseReading, None) /\ [][NextSorted]_vars

\* ------------------------------------------------------------------------
\* C20
\* ------------------------------------------------------------------------
RECURSIVE LexLess(_, _)
\* tuples of integers in lexicographic order
LexLess(a, b) ==
    /\ a # <<>>
    /\ \/ Head(a) < Head(b)
       \/ Head(a) = Head(b) /\ LexLess(Tail(a), Tail(b))

\* a comes before b in the order the sort mode is said to give
ClaimedBefore(a, b, mode) ==
    CASE mode = "CpuUsage" ->
            LexLess(<<0 - a.cpu_usage, 0 - a.memory, a.pid>>,
                    <<0 - b.cpu_usage, 0 - b.memory, b.pid>>)
      [] mode = "Memory" -> LexLess(<<0 - a.memory, a.pid>>, <<0 - b.memory, b.pid>>)
      [] mode = "Pid" -> LexLess(<<0 - a.pid>>, <<0 - b.pid>>)
      [] mode = "Name" ->
            IF a.name = b.name THEN a.pid < b.pid ELSE TextLess(a.name, b.name)

\* the list holds the processes it was given, each once
SamePids(l) ==
    /\ Len(l.sorted) = Len(l.processes)
    /\ \A i \in 1..Len(l.processes) : \E j \in 1..Len(l.sorted) : l.sorted[j] = l.processes[i]

\* the example of the process sort
ExampleProcesses ==
    {Proc(2, <<"b">>, 10, 5, None, <<>>, None), Proc(3, <<"a">>, 10, 8, None, <<>>, None),
     Proc(4, <<"a", "b">>, 20, 1, None, <<>>, None)}

\* C20: in each sort mode the flat list is in a total order of the processes:
\* any two processes are ordered one way and not the other (CpuUsage:
\* descending cpu, then descending memory, then ascending pid; Memory:
\* descending memory, then ascending pid; Pid: descending pid; Name:
\* ascending name, then ascending pid), the list holds the processes in that
\* order, and {pid 2 cpu 10 mem 5M, pid 3 cpu 10 mem 8M, pid 4 cpu 20 mem 1M},
\* given in any order, is listed as [4,3,2] under CpuUsage
C20_FlatOrderTotal ==
    listed # <<>> =>
        /\ SamePids(listed)
        /\ \A i \in 1..Len(listed.processes), j \in 1..Len(listed.processes) :
              i # j => ClaimedBefore(listed.processes[i], listed.processes[j], listed.sort_by)
                       # ClaimedBefore(listed.processes[j], listed.processes[i], listed.sort_by)
        /\ \A i \in 1..Len(listed.sorted), j \in 1..Len(listed.sorted) :
              i < j => ClaimedBefore(listed.sorted[i], listed.sorted[j], listed.sort_by)
        /\ ({listed.processes[i] : i \in 1..Len(listed.processes)} = ExampleProcesses
              /\ listed.sort_by = "CpuUsage"
              => [i \in 1..3 |-> listed.sorted[i].pid] = <<4, 3, 2>>)

\* the example, given in the order of its pids, listed as [4,3,2]
C20_Witness ==
    /\ listed # <<>>
    /\ listed.sort_by = "CpuUsage"
    /\ Len(listed.processes) = 3
    /\ {listed.processes[i] : i \in 1..3} = ExampleProcesses
    /\ [i \in 1..3 |-> listed.processes[i].pid] = <<2, 3, 4>>
    /\ [i \in 1..3 |-> listed.sorted[i].pid] = <<4, 3, 2>>

\* ------------------------------------------------------------------------
\* SpecLerp: interpolate_snapshots applied to a last displayed snapshot, a
\* target and a factor
\* ------------------------------------------------------------------------
\* f32 samples: 0.0, 0.1f, 0.5, 3.0
LerpScalars == {0, 13421773, 2^26, 3 * 2^27}

LerpGpus ==
    {<<>>,
     <<Gpu(Some(2^26), None, Some(100))>>,
     <<Gpu(Some(13421773), Some(2^27), Some(300)), Gpu(None, Some(2^26), None)>>}

LerpReadings ==
    {[BaseReading EXCEPT !.global_cpu_usage = cpu, !.used_memory = mem, !.used_swap = mem \div 2,
                         !.gpus = gpus,
                         !.processes = IF mem = 1000 THEN <<>> ELSE BaseReading.processes,
                         !.networks = IF mem = 1000 THEN <<>> ELSE BaseReading.networks,
                         !.memory_history = <<mem>>]
       : cpu \in LerpScalars, mem \in {1000, 2001}, gpus \in LerpGpus}

\* interpolate_snapshots, on its own
InterpolateStep ==
    /\ pc = "lerp"
    /\ pc' = "lerped"
    /\ interpolated_snapshot' =
          InterpolateSnapshots(snapshot, target_snapshot, interpolation_factor)
    /\ snapshot' = IF interpolation_factor >= FACTOR_DEN THEN target_snapshot ELSE snapshot
    /\ process_component' = SyncComponents(process_component, interpolated_snapshot')
    /\ UNCHANGED <<should_quit, theme, target_snapshot, interpolation_factor,
                   new_snapshot_received, last_snapshot_hash, terminal,
                   channelVars, logVars, collectorVars, viewVars>>

InitLerp ==
    \E last \in LerpReadings, target \in LerpReadings, factor \in 0..FACTOR_DEN :
        /\ pc = "lerp"
        /\ should_quit = FALSE
        /\ theme = "Default"
        /\ snapshot = Collect(last, 0)
        /\ target_snapshot = Collect(target, 1)
        /\ interpolated_snapshot = Collect(last, 0)
        /\ interpolation_factor = factor
        /\ new_snapshot_received = TRUE
        /\ last_snapshot_hash = None
        /\ process_component = ProcessComponentNew(Collect(last, 0))
        /\ terminal = [raw_mode |-> TRUE, alternate_screen |-> TRUE, mouse_capture |-> TRUE]
        /\ queue = <<>>
        /\ rx_open = TRUE
        /\ sampler_pc = "running"
        /\ produced = 1
        /\ received = <<1>>
        /\ events_read = 0
        /\ routed = None
        /\ kill_log = <<>>
        /\ CollectorIdle

NextLerp == InterpolateStep

SpecLerp == InitLerp /\ [][NextLerp]_vars

\* ------------------------------------------------------------------------
\* C1
\* ------------------------------------------------------------------------
Between(a, x, b) == Min2(a, b) <= x /\ x <= Max2(a, b)

\* x is a blend of a and b at the factor: between them, and b at factor 1
IsBlend(a, x, b, factor) == Between(a, x, b) /\ (factor = FACTOR_DEN => x = b)

\* the blended GPU values of `out`, where both sides have them
GpuBlended(cur, out, tgt, factor, field(_)) ==
    \A i \in 1..Min2(Len(cur.gpus), Len(tgt.gpus)) :
        IsSome(field(cur.gpus[i])) /\ IsSome(field(tgt.gpus[i])) =>
            /\ IsSome(field(out.gpus[i]))
            /\ IsBlend(Unwrap(field(cur.gpus[i])), Unwrap(field(out.gpus[i])),
                       Unwrap(field(tgt.gpus[i])), factor)

GpuUsage(g) == g.usage
GpuTemp(g) == g.temp
GpuMemoryUsed(g) == g.memory_used

\* the u64 scalars of `out` are blends
BlendedU64(cur, out, tgt, factor) ==
    /\ IsBlend(cur.used_memory, out.used_memory, tgt.used_memory, factor)
    /\ IsBlend(cur.used_swap, out.used_swap, tgt.used_swap, factor)
    /\ GpuBlended(cur, out, tgt, factor, GpuMemoryUsed)

\* the f32 scalars of `out` are blends
BlendedF32(cur, out, tgt, factor) ==
    /\ IsBlend(cur.global_cpu_usage, out.global_cpu_usage, tgt.global_cpu_usage, factor)
    /\ GpuBlended(cur, out, tgt, factor, GpuUsage)
    /\ GpuBlended(cur, out, tgt, factor, GpuTemp)

\* every field that is not blended is the target's
NonBlendedFromTarget(cur, out, tgt) ==
    /\ out.seq = tgt.seq
    /\ out.processes = tgt.processes
    /\ out.disks = tgt.disks
    /\ out.networks = tgt.networks
    /\ out.memory_history = tgt.memory_history
    /\ out.process_sort_by = tgt.process_sort_by
    /\ out.selected_network_interface = tgt.selected_network_interface
    /\ out.color_scheme = tgt.color_scheme
    /\ out.auto_update = tgt.auto_update
    /\ Len(out.gpus) = Len(tgt.gpus)
    /\ \A i \in 1..Len(tgt.gpus) :
          /\ ~(i <= Len(cur.gpus) /\ IsSome(cur.gpus[i].usage)) => out.gpus[i].usage = tgt.gpus[i].usage
          /\ ~(i <= Len(cur.gpus) /\ IsSome(cur.gpus[i].temp)) => out.gpus[i].temp = tgt.gpus[i].temp
          /\ ~(i <= Len(cur.gpus) /\ IsSome(cur.gpus[i].memory_used)) =>
                out.gpus[i].memory_used = tgt.gpus[i].memory_used

\* C1: for every factor in [0,1] each blended scalar of the interpolated
\* snapshot lies between the last displayed and the target value, equals the
\* target value at factor 1, and every other field is the target's.
C1_InterpolationBlend ==
    [][pc = "lerp" /\ pc' = "lerped" =>
         /\ BlendedF32(snapshot, interpolated_snapshot', target_snapshot, interpolation_factor)
         /\ BlendedU64(snapshot, interpolated_snapshot', target_snapshot, interpolation_factor)
         /\ NonBlendedFromTarget(snapshot, interpolated_snapshot', target_snapshot)]_vars

\* the part of C1 the code keeps: the u64 blends and the fields from the target
C1_ExactPart ==
    [][pc = "lerp" /\ pc' = "lerped" =>
         /\ BlendedU64(snapshot, interpolated_snapshot', target_snapshot, interpolation_factor)
         /\ NonBlendedFromTarget(snapshot, interpolated_snapshot', target_snapshot)]_vars

\* the case of C1: a blend at factor 1 from 0.5 towards 0.1 has been computed
C1_Witness ==
    /\ pc = "lerped"
    /\ interpolation_factor = FACTOR_DEN
    /\ target_snapshot.global_cpu_usage = 13421773
    /\ interpolated_snapshot.global_cpu_usage # 13421773
====
